---- MODULE Spec2Model ----
(***************************************************************************)
(* Model of artiq/coredevice/comm_generic.py: the host-side driver of the  *)
(* core device link (framer, primitive codec, control operations, tagged   *)
(* value codec, RPC serve loop), and of the scan objects of               *)
(* artiq/language/scan.py.                                                 *)
(*                                                                         *)
(* Bytes are the integers 0..255; byte strings, chunks and the two         *)
(* directions of the channel are sequences of bytes.  A Python exception   *)
(* is the field err of the driver record: every operator passes a record   *)
(* whose err is set through unchanged, which is how a raise unwinds the    *)
(* calls after it.                                                         *)
(***************************************************************************)
EXTENDS Integers, Sequences, FiniteSets, TLC

VARIABLES
    read_type,      \* CommGeneric._read_type  (a _D2HMsgType value, or None)
    read_length,    \* CommGeneric._read_length
    write_type,     \* CommGeneric._write_type (a _H2DMsgType value, or None)
    write_buffer,   \* CommGeneric._write_buffer: sequence of chunks
    inb,            \* channel, device -> host: bytes not yet read
    outb,           \* channel, host -> device: bytes written by the current operation
    status,         \* outcome of the last operation: "ok", "run" or the error raised
    ret,            \* value returned by the last operation
    pc,             \* position of the calling program
    args,           \* inputs of the running scenario
    evlog,          \* events of the current operation: "W" envelope written, "R" header read
    inflight,       \* requests written whose reply header has not been read
    nops,           \* operations performed so far
    emap,           \* the embedding map: sequence of stored objects, id = index
    scan,           \* a scan object of artiq.language.scan
    iters,          \* the iterators obtained from scan, by reference (index)
    loops           \* the loops over scan: iterator held, values got, finished

vars == <<read_type, read_length, write_type, write_buffer, inb, outb,
          status, ret, pc, args, evlog, inflight, nops, emap, scan, iters, loops>>

(***************************************************************************)
(* Message types                                                           *)
(***************************************************************************)
\* None in a type field: the members of the enumerations are 1 and up
None == 0

LOG_REQUEST == 1
LOG_CLEAR == 2
IDENT_REQUEST == 3
SWITCH_CLOCK == 4
LOAD_LIBRARY == 5
RUN_KERNEL == 6
RPC_REPLY == 7
RPC_EXCEPTION == 8
FLASH_READ_REQUEST == 9
FLASH_WRITE_REQUEST == 10
FLASH_ERASE_REQUEST == 11
FLASH_REMOVE_REQUEST == 12

H2DMsgType == 1..12

LOG_REPLY == 1
IDENT_REPLY == 2
CLOCK_SWITCH_COMPLETED == 3
CLOCK_SWITCH_FAILED == 4
LOAD_COMPLETED == 5
LOAD_FAILED == 6
KERNEL_FINISHED == 7
KERNEL_STARTUP_FAILED == 8
KERNEL_EXCEPTION == 9
RPC_REQUEST == 10
FLASH_READ_REPLY == 11
FLASH_OK_REPLY == 12
FLASH_ERROR_REPLY == 13
WATCHDOG_EXPIRED == 14
CLOCK_FAILURE == 15

D2HMsgType == 1..15

(***************************************************************************)
(* struct.pack / struct.unpack                                             *)
(***************************************************************************)
SYNC_BYTE == 90            \* 0x5a

\* struct.pack(">l", n): four bytes, big-endian, two's complement
Pack_l(n) == << (n \div 16777216) % 256, (n \div 65536) % 256,
                (n \div 256) % 256, n % 256 >>

\* struct.unpack(">l", b): signed
Unpack_l(b) == (IF b[1] >= 128 THEN b[1] - 256 ELSE b[1]) * 16777216
               + b[2] * 65536 + b[3] * 256 + b[4]

\* struct.pack("B", n)
Pack_B(n) == << n >>

\* struct.pack(">q", n) for n in the 32-bit range: sign-extended to eight bytes
Pack_q32(n) == (IF n < 0 THEN <<255, 255, 255, 255>> ELSE <<0, 0, 0, 0>>) \o Pack_l(n)

RECURSIVE Flatten(_)
Flatten(chunks) == IF chunks = <<>> THEN <<>>
                   ELSE Head(chunks) \o Flatten(Tail(chunks))

RECURSIVE SumLen(_)
SumLen(chunks) == IF chunks = <<>> THEN 0
                  ELSE Len(Head(chunks)) + SumLen(Tail(chunks))

(***************************************************************************)
(* Python values.  A value is a record [k |-> kind, v |-> payload]:        *)
(*   none v = 0; bool v = 0 or 1; int v = the integer when it fits 32      *)
(*   bits; bigint (an int too) v = the two halves [hi, lo] of a 64-bit     *)
(*   integer that does not fit 32 bits; float v = the                      *)
(*   IEEE-754 fields <<sign, exponent, fraction high 20 bits, fraction low *)
(*   4 bytes>>; Fraction v = <<numerator, denominator>>, two ints; str v = *)
(*   code points; tuple and list v = elements; range v = <<start, stop,    *)
(*   step>>, three ints;                                                   *)
(*   RPCKeyword v = <<name, value>>; object v = what identifies it;        *)
(*   bytes v = the byte values.                                            *)
(***************************************************************************)
PyNone == [k |-> "none", v |-> 0]
PyBool(b) == [k |-> "bool", v |-> b]
PyInt(n) == [k |-> "int", v |-> n]
PyBigInt(hi, lo) == [k |-> "bigint", v |-> [hi |-> hi, lo |-> lo]]
\* an int outside the signed 64-bit range, of the given sign
PyHugeInt(sign) == [k |-> "hugeint", v |-> sign]
PyFloat(s, e, f) == [k |-> "float", v |-> <<s, e, f, <<0, 0, 0, 0>> >>]
PyFraction(n, m) == [k |-> "Fraction", v |-> <<n, m>>]
PyStr(cps) == [k |-> "str", v |-> cps]
PyBytes(b) == [k |-> "bytes", v |-> b]
PyTuple(elts) == [k |-> "tuple", v |-> elts]
PyList(elts) == [k |-> "list", v |-> elts]
PyRange(a, b, c) == [k |-> "range", v |-> <<a, b, c>>]
PyObject(x) == [k |-> "object", v |-> x]
RPCKeyword(name, value) == [k |-> "RPCKeyword", v |-> <<name, value>>]
rpc_sentinel == [k |-> "sentinel", v |-> 0]

(***************************************************************************)
(* The driver record: the fields of CommGeneric, the two directions of     *)
(* the channel, the pending exception and the last return value.           *)
(***************************************************************************)
NoErr == "none"

\* what the last pass of serve handled, when it was not an RPC request
NoRpc == [served |-> FALSE]

Cur == [read_type |-> read_type, read_length |-> read_length,
        write_type |-> write_type, write_buffer |-> write_buffer,
        inb |-> inb, outb |-> outb, err |-> NoErr, ret |-> PyNone,
        evlog |-> <<>>, emap |-> emap, rpc |-> NoRpc, wfail |-> 0, wtries |-> 0]

Raise(d, e) == [d EXCEPT !.err = e]

\* no scan object is iterated
NoScanning ==
    /\ scan = [ty |-> "NoScan", value |-> <<0, 1>>, start |-> 0, stop |-> 0,
               npoints |-> 1, sequence |-> <<>>]
    /\ iters = <<>>
    /\ loops = <<>>

\* F applied to the value x
Let(x, F(_)) == F(x)

\* CommGeneric.__init__
NewComm == [read_type |-> None, read_length |-> 0,
            write_type |-> None, write_buffer |-> <<>>]

\* self.read(length): exactly length bytes, or the read fails
ChanRead(d, length) ==
    IF d.err # NoErr THEN d
    ELSE IF length <= 0 THEN [d EXCEPT !.ret = <<>>]
    ELSE IF Len(d.inb) < length THEN Raise([d EXCEPT !.inb = <<>>], "transport")
    ELSE [d EXCEPT !.ret = SubSeq(d.inb, 1, length),
                   !.inb = SubSeq(d.inb, length + 1, Len(d.inb))]

\* self.write(data): all of data, or the write fails; wfail is how many of
\* the coming calls the channel fails, wtries how many calls were made
ChanWrite(d, data) ==
    IF d.err # NoErr THEN d
    ELSE IF d.wfail > 0
         THEN Raise([d EXCEPT !.wfail = @ - 1, !.wtries = @ + 1], "transport")
    ELSE [d EXCEPT !.outb = @ \o data, !.wtries = @ + 1]

(***************************************************************************)
(* Reader interface                                                        *)
(***************************************************************************)
\* the while loop of _read_header: reads one byte at a time until four
\* consecutive 0x5a have been seen
\* a loop that counts 0x5a bytes without starting over at another byte
RECURSIVE SyncLoopNoReset(_, _)
SyncLoopNoReset(d, sync_count) ==
    IF d.err # NoErr \/ sync_count >= 4 THEN d
    ELSE Let(ChanRead(d, 1), LAMBDA r :
         IF r.err # NoErr THEN r
         ELSE SyncLoopNoReset(r, IF r.ret[1] = SYNC_BYTE THEN sync_count + 1
                                 ELSE sync_count))

RECURSIVE SyncLoop(_, _)
SyncLoop(d, sync_count) ==
    IF d.err # NoErr \/ sync_count >= 4 THEN d
    ELSE Let(ChanRead(d, 1), LAMBDA r :
         IF r.err # NoErr THEN r
         ELSE SyncLoop(r, IF r.ret[1] = SYNC_BYTE THEN sync_count + 1 ELSE 0))

ReadHeader(d) ==
    IF d.err # NoErr THEN d
    ELSE IF d.read_length > 0 THEN Raise(d, "Read underrun")
    ELSE
    Let(ChanRead(SyncLoop([d EXCEPT !.evlog = Append(@, "R")], 0), 4), LAMBDA l :
        IF l.err # NoErr THEN l
        ELSE IF Unpack_l(l.ret) = 0
             THEN Raise([l EXCEPT !.read_length = 0], "Connection closed")
        ELSE
        Let(ChanRead([l EXCEPT !.read_length = Unpack_l(l.ret)], 1), LAMBDA t :
            IF t.err # NoErr THEN t
            ELSE IF t.ret[1] \notin D2HMsgType THEN Raise(t, "ValueError")
            ELSE IF t.read_length < 9
                 THEN Raise([t EXCEPT !.read_type = t.ret[1]],
                            "Read overrun in message header")
            ELSE [t EXCEPT !.read_type = t.ret[1], !.read_length = @ - 9]))

\* a _read_expect that accepts every type
ReadExpectLax(d, ty) == d

ReadExpect(d, ty) ==
    IF d.err # NoErr THEN d
    ELSE IF d.read_type # ty THEN Raise(d, "Incorrect reply")
    ELSE d

ReadEmpty(d, ty) == ReadExpect(ReadHeader(d), ty)

ReadChunk(d, length) ==
    IF d.err # NoErr THEN d
    ELSE IF d.read_length < length THEN Raise(d, "Read overrun")
    ELSE ChanRead([d EXCEPT !.read_length = @ - length], length)

ReadInt8(d) == Let(ReadChunk(d, 1), LAMBDA r :
                   IF r.err # NoErr THEN r ELSE [r EXCEPT !.ret = r.ret[1]])

ReadInt32(d) == Let(ReadChunk(d, 4), LAMBDA r :
                    IF r.err # NoErr THEN r ELSE [r EXCEPT !.ret = Unpack_l(r.ret)])

ReadBytes(d) == Let(ReadInt32(d), LAMBDA n :
                    IF n.err # NoErr THEN n ELSE ReadChunk(n, n.ret))

(***************************************************************************)
(* Writer interface                                                        *)
(***************************************************************************)
WriteHeader(d, ty) ==
    IF d.err # NoErr THEN d
    ELSE [d EXCEPT !.write_type = ty, !.write_buffer = <<>>]

\* a _write_flush that announces an empty payload
WriteFlushNoLength(d) ==
    IF d.err # NoErr THEN d
    ELSE [ChanWrite(ChanWrite(d, <<90, 90, 90, 90>> \o Pack_l(9) \o Pack_B(d.write_type)),
                    Flatten(d.write_buffer))
          EXCEPT !.evlog = Append(@, "W")]

WriteFlush(d) ==
    IF d.err # NoErr THEN d
    ELSE [ChanWrite(ChanWrite(d, Pack_l(1515870810)
                                 \o Pack_l(9 + SumLen(d.write_buffer))
                                 \o Pack_B(d.write_type)),
                    Flatten(d.write_buffer))
          EXCEPT !.evlog = Append(@, "W")]

WriteEmpty(d, ty) == WriteFlush(WriteHeader(d, ty))

WriteChunk(d, chunk) ==
    IF d.err # NoErr THEN d ELSE [d EXCEPT !.write_buffer = Append(@, chunk)]

WriteInt8(d, value) == WriteChunk(d, Pack_B(value))

WriteInt32(d, value) == WriteChunk(d, Pack_l(value))

\* a _write_bytes without the length prefix
WriteBytesNoLength(d, value) == WriteChunk(d, value)

WriteBytes(d, value) == WriteChunk(WriteInt32(d, Len(value)), value)

(***************************************************************************)
(* Strings are sequences of code points; bytes.decode / str.encode for the *)
(* code points below 0x800 (one- and two-byte sequences).                  *)
(***************************************************************************)
RECURSIVE Utf8Encode(_)
Utf8Encode(str) ==
    IF str = <<>> THEN <<>>
    ELSE LET c == Head(str) IN
         (IF c < 128 THEN <<c>> ELSE <<192 + (c \div 64), 128 + (c % 64)>>)
         \o Utf8Encode(Tail(str))

IsCont(b) == b >= 128 /\ b < 192

\* bytes.decode("utf-8"): [ok, str]; ok is FALSE where Python raises
\* UnicodeDecodeError
RECURSIVE Utf8Decode(_)
Utf8Decode(b) ==
    IF b = <<>> THEN [ok |-> TRUE, str |-> <<>>]
    ELSE IF b[1] < 128
         THEN [Utf8Decode(Tail(b)) EXCEPT !.str = <<b[1]>> \o @]
    ELSE IF b[1] >= 194 /\ b[1] < 224 /\ Len(b) >= 2 /\ IsCont(b[2])
         THEN [Utf8Decode(Tail(Tail(b))) EXCEPT
                  !.str = <<(b[1] - 192) * 64 + (b[2] - 128)>> \o @]
    ELSE [ok |-> FALSE, str |-> <<>>]

\* bytes.decode("utf-8", "replace"): U+FFFD for every invalid byte
RECURSIVE Utf8DecodeReplace(_)
Utf8DecodeReplace(b) ==
    IF b = <<>> THEN <<>>
    ELSE IF b[1] < 128 THEN <<b[1]>> \o Utf8DecodeReplace(Tail(b))
    ELSE IF b[1] >= 194 /\ b[1] < 224 /\ Len(b) >= 2 /\ IsCont(b[2])
         THEN <<(b[1] - 192) * 64 + (b[2] - 128)>> \o Utf8DecodeReplace(Tail(Tail(b)))
    ELSE <<65533>> \o Utf8DecodeReplace(Tail(b))

Decode(d) ==
    IF d.err # NoErr THEN d
    ELSE Let(Utf8Decode(d.ret), LAMBDA r :
             IF r.ok THEN [d EXCEPT !.ret = r.str] ELSE Raise(d, "UnicodeDecodeError"))

\* _read_bytes()[:-1].decode("utf-8")
ReadString(d) == Let(ReadBytes(d), LAMBDA b :
                     IF b.err # NoErr THEN b
                     ELSE Decode([b EXCEPT !.ret = SubSeq(b.ret, 1, Len(b.ret) - 1)]))

\* _write_bytes(value.encode("utf-8") + b"\0")
WriteString(d, value) == WriteBytes(d, Utf8Encode(value) \o <<0>>)

(***************************************************************************)
(* Exported APIs: the control operations.  reply is what the device sends  *)
(* once the request has been written; the operation's read waits for it.   *)
(***************************************************************************)
AROR == <<65, 82, 79, 82>>

Deliver(d, reply) ==
    IF d.err # NoErr THEN d ELSE [d EXCEPT !.inb = @ \o reply]

Return(d, value) == IF d.err # NoErr THEN d ELSE [d EXCEPT !.ret = value]

\* self.write(struct.pack(">ll", 0x5a5a5a5a, 0))
ResetSession(d) == ChanWrite(d, Pack_l(1515870810) \o Pack_l(0))

CheckIdent(d, reply) ==
    LET w == WriteEmpty(d, IDENT_REQUEST)
        h == ReadExpect(ReadHeader(Deliver(w, reply)), IDENT_REPLY)
        runtime_id == ReadChunk(h, 4)
        m == IF runtime_id.err = NoErr /\ runtime_id.ret # AROR
             THEN Raise(runtime_id, "UnsupportedDevice") ELSE runtime_id
        gateware_version == Decode(ReadChunk(m, m.read_length))
    IN  Return(gateware_version, PyNone)

SwitchClock(d, external, reply) ==
    LET w == WriteFlush(WriteInt8(WriteHeader(d, SWITCH_CLOCK), external))
    IN  Return(ReadEmpty(Deliver(w, reply), CLOCK_SWITCH_COMPLETED), PyNone)

GetLog(d, reply) ==
    LET w == WriteEmpty(d, LOG_REQUEST)
        h == ReadExpect(ReadHeader(Deliver(w, reply)), LOG_REPLY)
        c == ReadChunk(h, h.read_length)
    IN  IF c.err # NoErr THEN c ELSE Return(c, PyStr(Utf8DecodeReplace(c.ret)))

ClearLog(d, reply) ==
    LET w == WriteEmpty(d, LOG_CLEAR)
    IN  Return(ReadEmpty(Deliver(w, reply), LOG_REPLY), PyNone)

FlashStorageRead(d, key, reply) ==
    LET w == WriteFlush(WriteString(WriteHeader(d, FLASH_READ_REQUEST), key))
        h == ReadExpect(ReadHeader(Deliver(w, reply)), FLASH_READ_REPLY)
        value == ReadChunk(h, h.read_length)
    IN  Return(value, PyBytes(value.ret))

FlashStorageWrite(d, key, value, reply) ==
    LET w == WriteFlush(WriteBytes(WriteString(
                 WriteHeader(d, FLASH_WRITE_REQUEST), key), value))
        h == ReadHeader(Deliver(w, reply))
    IN  IF h.err # NoErr THEN h
        ELSE IF h.read_type = FLASH_ERROR_REPLY THEN Raise(h, "Flash storage is full")
        ELSE Return(ReadExpect(h, FLASH_OK_REPLY), PyNone)

FlashStorageErase(d, reply) ==
    LET w == WriteEmpty(d, FLASH_ERASE_REQUEST)
    IN  Return(ReadEmpty(Deliver(w, reply), FLASH_OK_REPLY), PyNone)

FlashStorageRemove(d, key, reply) ==
    LET w == WriteFlush(WriteString(WriteHeader(d, FLASH_REMOVE_REQUEST), key))
    IN  Return(ReadEmpty(Deliver(w, reply), FLASH_OK_REPLY), PyNone)

Load(d, kernel_library, reply) ==
    LET w == WriteFlush(WriteChunk(WriteHeader(d, LOAD_LIBRARY), kernel_library))
    IN  Return(ReadEmpty(Deliver(w, reply), LOAD_COMPLETED), PyNone)

\* isinstance(value, int): a bool is an int
IsInt(value) == value.k \in {"int", "bool", "bigint", "hugeint"}

\* (-2**31 < value < 2**31-1)
InOpenInt32(value) ==
    /\ value.k \in {"int", "bool"}
    /\ (-2147483647) - 1 < value.v
    /\ value.v < 2147483647

\* (-2**63 < value < 2**63-1)
InOpenInt64(value) ==
    IF value.k \in {"int", "bool"} THEN TRUE
    ELSE /\ value.k = "bigint"
         /\ ~(value.v.hi = (-2147483647) - 1 /\ value.v.lo = <<0, 0, 0, 0>>)
         /\ ~(value.v.hi = 2147483647 /\ value.v.lo = <<255, 255, 255, 255>>)

\* struct.pack(">q", value)
Pack_q(value) ==
    IF value.k = "bigint" THEN Pack_l(value.v.hi) \o value.v.lo
    ELSE Pack_q32(value.v)

WriteInt64(d, value) == WriteChunk(d, Pack_q(value))

\* struct.unpack(">q", b)
Unpack_q(b) ==
    LET hi == Unpack_l(SubSeq(b, 1, 4))
        lo == SubSeq(b, 5, 8)
    IN  IF (hi = 0 /\ lo[1] < 128) \/ (hi = -1 /\ lo[1] >= 128)
        THEN PyInt(Unpack_l(lo)) ELSE PyBigInt(hi, lo)

\* struct.pack(">d", x)
Pack_d(x) == << x[1] * 128 + (x[2] \div 16), (x[2] % 16) * 16 + (x[3] \div 65536),
                (x[3] \div 256) % 256, x[3] % 256 >> \o x[4]

\* struct.unpack(">d", b)
Unpack_d(b) == << b[1] \div 128, (b[1] % 128) * 16 + (b[2] \div 16),
                  (b[2] % 16) * 65536 + b[3] * 256 + b[4], SubSeq(b, 5, 8) >>

WriteFloat64(d, value) == WriteChunk(d, Pack_d(value))

ReadInt64(d) == Let(ReadChunk(d, 8), LAMBDA r :
                    IF r.err # NoErr THEN r ELSE [r EXCEPT !.ret = Unpack_q(r.ret)])

ReadFloat64(d) == Let(ReadChunk(d, 8), LAMBDA r :
                      IF r.err # NoErr THEN r ELSE [r EXCEPT !.ret = Unpack_d(r.ret)])

(***************************************************************************)
(* Tagged value codec, sending side.  tags is the bytearray the caller     *)
(* passed; an operator returns [d, tags]: the driver record and the        *)
(* caller's bytearray as the call left it.                                 *)
(***************************************************************************)
TAG_t == 116
TAG_n == 110
TAG_b == 98
TAG_i == 105
TAG_I == 73
TAG_f == 102
TAG_F == 70
TAG_s == 115
TAG_l == 108
TAG_r == 114
TAG_k == 107
TAG_O == 79

\* chr(c): a one-character string, held as its code point
Chr(c) == c

\* Python ==, an int against a str: never equal
IntEqStr(i, str) == FALSE

\* tags.pop(0): pop from an empty bytearray raises IndexError
Pop0(tags) == IF tags = <<>> THEN [ok |-> FALSE, item |-> 0, tags |-> tags]
              ELSE [ok |-> TRUE, item |-> Head(tags), tags |-> Tail(tags)]

RECURSIVE SkipRpcValue(_, _)
RECURSIVE SkipRpcValues(_, _, _)

\* for _ in range(length): self._skip_rpc_value(tags)
SkipRpcValues(d, tags, length) ==
    IF length <= 0 \/ d.err # NoErr THEN [d |-> d, tags |-> tags]
    ELSE Let(SkipRpcValue(d, tags), LAMBDA r : SkipRpcValues(r.d, r.tags, length - 1))

\* tag is an element of a bytearray, an int; the code compares it with
\* "t", "l" and "r"
SkipRpcValue(d, tags) ==
    IF d.err # NoErr THEN [d |-> d, tags |-> tags]
    ELSE
    Let(Pop0(tags), LAMBDA p :
        IF ~p.ok THEN [d |-> Raise(d, "IndexError"), tags |-> tags]
        ELSE IF IntEqStr(p.item, "t")
             THEN Let(Pop0(p.tags), LAMBDA q :
                      IF ~q.ok THEN [d |-> Raise(d, "IndexError"), tags |-> p.tags]
                      ELSE SkipRpcValues(d, q.tags, q.item))
        ELSE IF IntEqStr(p.item, "l") THEN SkipRpcValue(d, p.tags)
        ELSE IF IntEqStr(p.item, "r") THEN SkipRpcValue(d, p.tags)
        ELSE [d |-> d, tags |-> p.tags])

\* check(cond, expected)
Check(d, cond) ==
    IF d.err # NoErr THEN d
    ELSE IF ~cond THEN Raise(d, "RPCReturnValueError") ELSE d

RECURSIVE SendRpcValue(_, _, _)
RECURSIVE SendRpcElts(_, _, _)
RECURSIVE SendRpcListElts(_, _, _)

\* for elt in value: self._send_rpc_value(tags, elt, root, function)
SendRpcElts(d, tags, elts) ==
    IF elts = <<>> \/ d.err # NoErr THEN [d |-> d, tags |-> tags]
    ELSE Let(SendRpcValue(d, tags, Head(elts)), LAMBDA r :
             SendRpcElts(r.d, r.tags, Tail(elts)))

\* for elt in value: tags_copy = bytearray(tags); self._send_rpc_value(tags_copy, ...)
SendRpcListElts(d, tags, elts) ==
    IF elts = <<>> \/ d.err # NoErr THEN d
    ELSE SendRpcListElts(SendRpcValue(d, tags, Head(elts)).d, tags, Tail(elts))

SendRpcValue(d, tags, value) ==
    IF d.err # NoErr THEN [d |-> d, tags |-> tags]
    ELSE
    Let(Pop0(tags), LAMBDA p :
    IF ~p.ok THEN [d |-> Raise(d, "IndexError"), tags |-> tags]
    ELSE IF Chr(p.item) = TAG_t THEN
        Let(Pop0(p.tags), LAMBDA q :
            IF ~q.ok THEN [d |-> Raise(d, "IndexError"), tags |-> p.tags]
            ELSE Let(Check(d, value.k = "tuple" /\ q.item = Len(value.v)), LAMBDA c :
                     IF c.err # NoErr THEN [d |-> c, tags |-> q.tags]
                     ELSE SendRpcElts(c, q.tags, value.v)))
    ELSE IF Chr(p.item) = TAG_n THEN
        [d |-> Check(d, value.k = "none"), tags |-> p.tags]
    ELSE IF Chr(p.item) = TAG_b THEN
        [d |-> WriteInt8(Check(d, value.k = "bool"), value.v), tags |-> p.tags]
    ELSE IF Chr(p.item) = TAG_i THEN
        [d |-> WriteInt32(Check(d, IsInt(value) /\ InOpenInt32(value)), value.v),
         tags |-> p.tags]
    ELSE IF Chr(p.item) = TAG_I THEN
        [d |-> WriteInt64(Check(d, IsInt(value) /\ InOpenInt64(value)), value),
         tags |-> p.tags]
    ELSE IF Chr(p.item) = TAG_f THEN
        [d |-> WriteFloat64(Check(d, value.k = "float"), value.v), tags |-> p.tags]
    ELSE IF Chr(p.item) = TAG_F THEN
        [d |-> WriteInt64(WriteInt64(Check(d, /\ value.k = "Fraction"
                                              /\ InOpenInt64(value.v[1])
                                              /\ InOpenInt64(value.v[2])),
                                     value.v[1]),
                          value.v[2]),
         tags |-> p.tags]
    ELSE IF Chr(p.item) = TAG_s THEN
        [d |-> WriteString(Check(d, /\ value.k = "str"
                                    /\ \A j \in 1..Len(value.v) : value.v[j] # 0),
                           value.v),
         tags |-> p.tags]
    ELSE IF Chr(p.item) = TAG_l THEN
        Let(Check(d, value.k = "list"), LAMBDA c :
            IF c.err # NoErr THEN [d |-> c, tags |-> p.tags]
            ELSE SkipRpcValue(SendRpcListElts(WriteInt32(c, Len(value.v)),
                                              p.tags, value.v),
                              p.tags))
    ELSE IF Chr(p.item) = TAG_r THEN
        Let(Check(d, value.k = "range"), LAMBDA c :
            IF c.err # NoErr THEN [d |-> c, tags |-> p.tags]
            ELSE \* start, stop and step against copies; "tags = tags_copy"
                 \* rebinds the local name, the caller's bytearray keeps what
                 \* the pop left
                 [d |-> SendRpcValue(
                            SendRpcValue(
                                SendRpcValue(c, p.tags, value.v[1]).d,
                                p.tags, value.v[2]).d,
                            p.tags, value.v[3]).d,
                  tags |-> p.tags])
    ELSE [d |-> Raise(d, "Unknown RPC value tag"), tags |-> p.tags])

(***************************************************************************)
(* Tagged value codec, receiving side                                      *)
(***************************************************************************)
RECURSIVE Gcd(_, _)
Gcd(a, b) == IF b = 0 THEN a ELSE Gcd(b, a % b)

Abs(n) == IF n < 0 THEN -n ELSE n

\* Fraction(numerator, denominator): lowest terms, the sign on the
\* numerator; halves of a wide integer are kept as read
Fraction(numerator, denominator) ==
    IF numerator.k = "int" /\ denominator.k = "int"
    THEN Let(Gcd(Abs(numerator.v), Abs(denominator.v))
                 * (IF denominator.v < 0 THEN -1 ELSE 1),
             LAMBDA g : PyFraction(PyInt(numerator.v \div g), PyInt(denominator.v \div g)))
    ELSE PyFraction(numerator, denominator)

\* embedding_map.retrieve_object(id): fails if the id is unknown
RetrieveObject(d, id) ==
    IF d.err # NoErr THEN d
    ELSE IF id \in 1..Len(d.emap) THEN [d EXCEPT !.ret = d.emap[id]]
    ELSE Raise(d, "KeyError")

\* embedding_map.store_object(obj): the id the object has, or the next one
StoreObject(d, obj) ==
    IF d.err # NoErr THEN d
    ELSE IF \E id \in 1..Len(d.emap) : d.emap[id] = obj
         THEN [d EXCEPT !.ret = CHOOSE id \in 1..Len(d.emap) : d.emap[id] = obj]
    ELSE [d EXCEPT !.emap = Append(@, obj), !.ret = Len(d.emap) + 1]

RECURSIVE ReceiveRpcValue(_)
RECURSIVE ReceiveRpcValues(_, _, _)

\* [self._receive_rpc_value(embedding_map) for _ in range(length)]
ReceiveRpcValues(d, length, acc) ==
    IF d.err # NoErr THEN d
    ELSE IF length <= 0 THEN [d EXCEPT !.ret = acc]
    ELSE Let(ReceiveRpcValue(d), LAMBDA r :
             IF r.err # NoErr THEN r
             ELSE ReceiveRpcValues(r, length - 1, Append(acc, r.ret)))

\* d with its result replaced by F of it, unless d carries an error
Result(d, F(_)) == IF d.err # NoErr THEN d ELSE [d EXCEPT !.ret = F(d.ret)]

ReceiveRpcValue(d) ==
    Let(ReadInt8(d), LAMBDA t :
    IF t.err # NoErr THEN t
    ELSE IF Chr(t.ret) = 0 THEN [t EXCEPT !.ret = rpc_sentinel]
    ELSE IF Chr(t.ret) = TAG_t THEN
        Let(ReadInt8(t), LAMBDA length :
            Result(ReceiveRpcValues(length, length.ret, <<>>), LAMBDA x : PyTuple(x)))
    ELSE IF Chr(t.ret) = TAG_n THEN [t EXCEPT !.ret = PyNone]
    ELSE IF Chr(t.ret) = TAG_b THEN
        Result(ReadInt8(t), LAMBDA x : PyBool(IF x # 0 THEN 1 ELSE 0))
    ELSE IF Chr(t.ret) = TAG_i THEN Result(ReadInt32(t), LAMBDA x : PyInt(x))
    ELSE IF Chr(t.ret) = TAG_I THEN ReadInt64(t)
    ELSE IF Chr(t.ret) = TAG_f THEN
        Result(ReadFloat64(t), LAMBDA x : [k |-> "float", v |-> x])
    ELSE IF Chr(t.ret) = TAG_F THEN
        Let(ReadInt64(t), LAMBDA numerator :
        Let(ReadInt64(numerator), LAMBDA denominator :
            IF denominator.err # NoErr THEN denominator
            ELSE IF denominator.ret.k = "int" /\ denominator.ret.v = 0
                 THEN Raise(denominator, "ZeroDivisionError")
            ELSE [denominator EXCEPT !.ret = Fraction(numerator.ret, denominator.ret)]))
    ELSE IF Chr(t.ret) = TAG_s THEN Result(ReadString(t), LAMBDA x : PyStr(x))
    ELSE IF Chr(t.ret) = TAG_l THEN
        Let(ReadInt32(t), LAMBDA length :
            Result(ReceiveRpcValues(length, length.ret, <<>>), LAMBDA x : PyList(x)))
    ELSE IF Chr(t.ret) = TAG_r THEN
        Let(ReceiveRpcValue(t), LAMBDA start :
        Let(ReceiveRpcValue(start), LAMBDA stop :
        Let(ReceiveRpcValue(stop), LAMBDA step :
            IF step.err # NoErr THEN step
            ELSE IF ~(IsInt(start.ret) /\ IsInt(stop.ret) /\ IsInt(step.ret))
                 THEN Raise(step, "TypeError")
            ELSE IF step.ret.k # "bigint" /\ step.ret.v = 0 THEN Raise(step, "ValueError")
            ELSE [step EXCEPT !.ret = PyRange(start.ret, stop.ret, step.ret)])))
    ELSE IF Chr(t.ret) = TAG_k THEN
        Let(ReadString(t), LAMBDA name :
            Result(ReceiveRpcValue(name), LAMBDA x : RPCKeyword(name.ret, x)))
    ELSE IF Chr(t.ret) = TAG_O THEN
        Let(ReadInt32(t), LAMBDA r :
            IF r.err # NoErr THEN r ELSE RetrieveObject(r, r.ret))
    ELSE Raise(t, "Unknown RPC value tag"))

\* kwargs[name] = value: a dict, held as the sequence of its items in
\* insertion order
\* an assignment that keeps the value a name already has
SetItemFirstWins(kwargs, name, value) ==
    IF \E j \in 1..Len(kwargs) : kwargs[j][1] = name THEN kwargs
    ELSE Append(kwargs, <<name, value>>)

SetItem(kwargs, name, value) ==
    IF \E j \in 1..Len(kwargs) : kwargs[j][1] = name
    THEN [j \in 1..Len(kwargs) |->
             IF kwargs[j][1] = name THEN <<name, value>> ELSE kwargs[j]]
    ELSE Append(kwargs, <<name, value>>)

\* the while loop of _receive_rpc_args
RECURSIVE ReceiveRpcArgsLoop(_, _, _)
ReceiveRpcArgsLoop(d, args_, kwargs) ==
    Let(ReceiveRpcValue(d), LAMBDA value :
        IF value.err # NoErr THEN value
        ELSE IF value.ret.k = "sentinel"
             THEN [value EXCEPT !.ret = [args |-> args_, kwargs |-> kwargs]]
        ELSE IF value.ret.k = "RPCKeyword"
             THEN ReceiveRpcArgsLoop(value, args_,
                                     SetItem(kwargs, value.ret.v[1], value.ret.v[2]))
        ELSE ReceiveRpcArgsLoop(value, Append(args_, value.ret), kwargs))

ReceiveRpcArgs(d) == ReceiveRpcArgsLoop(d, <<>>, <<>>)

(***************************************************************************)
(* Strings the exception bridge writes, as code points                     *)
(***************************************************************************)
\* "builtins"
S_builtins == <<98, 117, 105, 108, 116, 105, 110, 115>>
\* "ZeroDivisionError"
S_ZeroDivisionError == <<90, 101, 114, 111, 68, 105, 118, 105, 115, 105, 111, 110, 69, 114, 114, 111, 114>>
\* "ValueError"
S_ValueError == <<86, 97, 108, 117, 101, 69, 114, 114, 111, 114>>
\* "IndexError"
S_IndexError == <<73, 110, 100, 101, 120, 69, 114, 114, 111, 114>>
\* "TypeError"
S_TypeError == <<84, 121, 112, 101, 69, 114, 114, 111, 114>>
\* "OSError"
S_OSError == <<79, 83, 69, 114, 114, 111, 114>>
\* "AttributeError"
S_AttributeError == <<65, 116, 116, 114, 105, 98, 117, 116, 101, 69, 114, 114, 111, 114>>
\* "RPCReturnValueError"
S_RPCReturnValueError == <<82, 80, 67, 82, 101, 116, 117, 114, 110, 86, 97, 108, 117, 101, 69, 114, 114, 111, 114>>
\* "artiq.coredevice.comm_generic"
S_comm_generic == <<97, 114, 116, 105, 113, 46, 99, 111, 114, 101, 100, 101, 118, 105, 99, 101, 46, 99, 111, 109, 109, 95, 103, 101, 110, 101, 114, 105, 99>>
\* "comm_generic.py"
S_comm_generic_py == <<99, 111, 109, 109, 95, 103, 101, 110, 101, 114, 105, 99, 46, 112, 121>>
\* "_serve_rpc"
S_serve_rpc == <<95, 115, 101, 114, 118, 101, 95, 114, 112, 99>>
\* "_send_rpc_value"
S_send_rpc_value == <<95, 115, 101, 110, 100, 95, 114, 112, 99, 95, 118, 97, 108, 117, 101>>
\* "_write_flush"
S_write_flush == <<95, 119, 114, 105, 116, 101, 95, 102, 108, 117, 115, 104>>
\* "<lambda>"
S_lambda == <<60, 108, 97, 109, 98, 100, 97, 62>>
\* "obj"
S_obj == <<111, 98, 106>>
\* "attr"
S_attr == <<97, 116, 116, 114>>
\* "value"
S_value == <<118, 97, 108, 117, 101>>
\* "type mismatch"
S_type_mismatch == <<116, 121, 112, 101, 32, 109, 105, 115, 109, 97, 116, 99, 104>>
\* "Unknown RPC value tag"
S_unknown_tag == <<85, 110, 107, 110, 111, 119, 110, 32, 82, 80, 67, 32, 118, 97, 108, 117, 101, 32, 116, 97, 103>>
\* "pop from empty bytearray"
S_pop_empty == <<112, 111, 112, 32, 102, 114, 111, 109, 32, 101, 109, 112, 116, 121, 32, 98, 121, 116, 101, 97, 114, 114, 97, 121>>
\* "bad call"
S_bad_call == <<98, 97, 100, 32, 99, 97, 108, 108>>

\* "{}".format(n) for a non-negative integer n
RECURSIVE ToDec(_)
ToDec(n) == IF n < 10 THEN <<48 + n>> ELSE ToDec(n \div 10) \o <<48 + (n % 10)>>

(***************************************************************************)
(* Exceptions.  A type is [module, name, builtin]: __module__,             *)
(* __qualname__ and whether it has the artiq_builtin attribute.  An        *)
(* exception is [type, msg, carries, core, tb]: str(exn), whether it has   *)
(* the artiq_core_exception attribute, that record, and the frames         *)
(* <<filename, line, function, text>> of its traceback, outermost first.   *)
(***************************************************************************)
ExnType(module, name, builtin) == [module |-> module, name |-> name, builtin |-> builtin]

NoCore == [id |-> 0, name |-> <<>>, message |-> <<>>, param |-> <<>>, traceback |-> <<>>]

Exn(type, msg, tb) ==
    [type |-> type, msg |-> msg, carries |-> FALSE, core |-> NoCore, tb |-> tb]

\* raise exn
RaiseExn(d, e, exn) == IF d.err # NoErr THEN d ELSE [d EXCEPT !.err = e, !.ret = exn]

\* the traceback of an exception raised in _send_rpc_value (its line stands
\* for the line of the failing statement), which
\* _serve_rpc called
SendTraceback == << <<S_comm_generic_py, 460, S_serve_rpc, <<>> >>,
                    <<S_comm_generic_py, 376, S_send_rpc_value, <<>> >> >>

\* the exception object behind an error raised inside the try of _serve_rpc
ExnOf(d) ==
    IF d.err = "ServiceException" THEN d.ret
    ELSE IF d.err = "RPCReturnValueError"
         THEN Exn(ExnType(S_comm_generic, S_RPCReturnValueError, FALSE),
                  S_type_mismatch, SendTraceback)
    ELSE IF d.err = "IndexError"
         THEN Exn(ExnType(S_builtins, S_IndexError, FALSE), S_pop_empty, SendTraceback)
    ELSE IF d.err = "transport"
         THEN Exn(ExnType(S_builtins, S_OSError, FALSE), <<>>,
                  << <<S_comm_generic_py, 461, S_serve_rpc, <<>> >>,
                     <<S_comm_generic_py, 192, S_write_flush, <<>> >> >>)
    ELSE Exn(ExnType(S_builtins, S_OSError, FALSE), S_unknown_tag, SendTraceback)

\* a test that takes no type for one of the three
WellKnownNone(exn_type) == FALSE

\* exn_type in (ZeroDivisionError, ValueError, IndexError)
WellKnown(exn_type) ==
    /\ exn_type.module = S_builtins
    /\ exn_type.name \in {S_ZeroDivisionError, S_ValueError, S_IndexError}

\* the names getattr(exceptions, name) resolves
BuiltinKinds == {S_ZeroDivisionError, S_ValueError, S_IndexError}

IsDigit(c) == c >= 48 /\ c <= 57

RECURSIVE ParseDec(_, _)
ParseDec(str, acc) ==
    IF str = <<>> THEN acc ELSE ParseDec(Tail(str), acc * 10 + (Head(str) - 48))

\* the position of the first c in str, 0 if there is none
IndexOf(str, c) ==
    IF \E j \in 1..Len(str) : str[j] = c
    THEN CHOOSE j \in 1..Len(str) : str[j] = c /\ \A i \in 1..(j - 1) : str[i] # c
    ELSE 0

\* the position of the last c in str, 0 if there is none
LastIndexOf(str, c) ==
    IF \E j \in 1..Len(str) : str[j] = c
    THEN CHOOSE j \in 1..Len(str) : str[j] = c /\ \A i \in (j + 1)..Len(str) : str[i] # c
    ELSE 0

\* the id a name "<id>:..." starts with; -1 for a malformed prefix
PrefixId(name) ==
    LET c == IndexOf(name, 58) IN
    IF c > 1 /\ c <= 10 /\ \A j \in 1..(c - 1) : IsDigit(name[j])
    THEN ParseDec(SubSeq(name, 1, c - 1), 0) ELSE -1

\* name.split('.')[-1] of what follows the prefix
SimpleName(name) ==
    LET rest == SubSeq(name, IndexOf(name, 58) + 1, Len(name))
    IN  SubSeq(rest, LastIndexOf(rest, 46) + 1, Len(rest))

\* exceptions.CoreException(name, message, params, traceback): the record
\* {name, message, params, traceback}, a frame being {file, line, column,
\* function}
CoreException(name, message, params, traceback) ==
    [id |-> PrefixId(name), name |-> name, message |-> message, param |-> params,
     traceback |-> [j \in 1..Len(traceback) |-> SubSeq(traceback[j], 1, 4)]]

\* symbolizer(addresses): the frames (file, line, column, function,
\* inlined) of the addresses, outer first
Symbolizer(addresses) ==
    [j \in 1..Len(addresses) |-> << <<63>>, addresses[j], 0, <<63>>, FALSE >>]

\* demangler([function]): the names with the mangling prefix "_Z" removed
Demangler(functions) ==
    [j \in 1..Len(functions) |->
        IF Len(functions[j]) >= 2 /\ SubSeq(functions[j], 1, 2) = <<95, 90>>
        THEN SubSeq(functions[j], 3, Len(functions[j])) ELSE functions[j]]

Reversed(seq) == [j \in 1..Len(seq) |-> seq[Len(seq) + 1 - j]]

\* message.format(*params) for messages whose replacement fields are
\* "{0}", "{1}", "{2}" and whose parameters are non-negative integers of
\* the 32-bit range; [ok, str], ok FALSE where format raises
RECURSIVE Format(_, _)
Format(message, params) ==
    IF message = <<>> THEN [ok |-> TRUE, str |-> <<>>]
    ELSE IF Len(message) >= 2 /\ SubSeq(message, 1, 2) \in {<<123, 123>>, <<125, 125>>}
         THEN [Format(SubSeq(message, 3, Len(message)), params) EXCEPT
                  !.str = <<message[1]>> \o @]
    ELSE IF message[1] = 123
         THEN IF /\ Len(message) >= 3
                 /\ message[2] \in 48..50
                 /\ message[3] = 125
                 /\ params[message[2] - 47].k = "int"
                 /\ params[message[2] - 47].v >= 0
              THEN [Format(SubSeq(message, 4, Len(message)), params) EXCEPT
                       !.str = ToDec(params[message[2] - 47].v) \o @]
              ELSE [ok |-> FALSE, str |-> <<>>]
    ELSE IF message[1] = 125 THEN [ok |-> FALSE, str |-> <<>>]
    ELSE [Format(Tail(message), params) EXCEPT !.str = <<message[1]>> \o @]

\* [self._read_int32() for _ in range(length)]
RECURSIVE ReadInt32s(_, _, _)
ReadInt32s(d, length, acc) ==
    IF d.err # NoErr THEN d
    ELSE IF length <= 0 THEN [d EXCEPT !.ret = acc]
    ELSE Let(ReadInt32(d), LAMBDA r :
             IF r.err # NoErr THEN r ELSE ReadInt32s(r, length - 1, Append(acc, r.ret)))

\* the tail of _serve_exception: what is raised for the fields read, d
\* being the driver after the reads
RaiseCoreException(d, name, message, params, traceback) ==
    Let(CoreException(name, message, params, traceback), LAMBDA core_exn :
    Let(IF core_exn.id < 0 THEN Raise(d, "ValueError")
        ELSE IF core_exn.id = 0
        THEN IF SimpleName(core_exn.name) \in BuiltinKinds
             THEN [d EXCEPT !.ret = ExnType(S_builtins, SimpleName(core_exn.name), FALSE)]
             ELSE Raise(d, "AttributeError")
        ELSE Result(RetrieveObject(d, core_exn.id), LAMBDA o : o.v),
        LAMBDA python_exn_type :
    Let(Format(message, params), LAMBDA text :
        IF python_exn_type.err # NoErr THEN python_exn_type
        ELSE IF ~text.ok THEN Raise(python_exn_type, "ValueError")
        ELSE RaiseExn(python_exn_type, "KernelException",
                      [type |-> python_exn_type.ret, msg |-> text.str, carries |-> TRUE,
                       core |-> core_exn, tb |-> <<>>]))))

ServeException(d) ==
    Let(ReadString(d), LAMBDA name :
    Let(ReadString(name), LAMBDA message :
    Let(ReadInt64(message), LAMBDA p1 :
    Let(ReadInt64(p1), LAMBDA p2 :
    Let(ReadInt64(p2), LAMBDA p3 :
    Let(ReadString(p3), LAMBDA filename :
    Let(ReadInt32(filename), LAMBDA line :
    Let(ReadInt32(line), LAMBDA column :
    Let(ReadString(column), LAMBDA function :
    Let(ReadInt32(function), LAMBDA length :
    Let(ReadInt32s(length, length.ret, <<>>), LAMBDA backtrace :
        IF backtrace.err # NoErr THEN backtrace
        ELSE RaiseCoreException(
                 backtrace, name.ret, message.ret, <<p1.ret, p2.ret, p3.ret>>,
                 Reversed(Symbolizer(backtrace.ret)) \o
                 << <<filename.ret, line.ret, column.ret>> \o
                    Demangler(<<function.ret>>) \o <<None>> >>))))))))))))

(***************************************************************************)
(* The RPC server.  What the service does is the environment's choice,     *)
(* outcome: [o |-> "returns", x |-> value] or [o |-> "raises", x |-> exn]. *)
(***************************************************************************)
Returns(value) == [o |-> "returns", x |-> value]
Raises(exn) == [o |-> "raises", x |-> exn]

\* lambda obj, attr, value: the call binds when the positional arguments
\* and the keywords together name each parameter once
Binds(args_, kwargs) ==
    LET names == <<S_obj, S_attr, S_value>> IN
    /\ Len(args_) <= 3
    /\ Len(args_) + Len(kwargs) = 3
    /\ {kwargs[j][1] : j \in 1..Len(kwargs)} = {names[j] : j \in (Len(args_) + 1)..3}

\* the attr argument of a call that binds
AttrOf(args_, kwargs) ==
    IF Len(args_) >= 2 THEN args_[2]
    ELSE LET j == CHOOSE j \in 1..Len(kwargs) : kwargs[j][1] = S_attr IN kwargs[j][2]

\* service(*args, **kwargs)
Service(service_id, args_, kwargs, outcome) ==
    IF service_id = 0
    THEN IF ~Binds(args_, kwargs)
         THEN Raises(Exn(ExnType(S_builtins, S_TypeError, FALSE), S_bad_call,
                         << <<S_comm_generic_py, 455, S_serve_rpc, <<>> >> >>))
         ELSE IF AttrOf(args_, kwargs).k # "str"
         THEN Raises(Exn(ExnType(S_builtins, S_TypeError, FALSE), S_bad_call,
                         << <<S_comm_generic_py, 455, S_serve_rpc, <<>> >>,
                            <<S_comm_generic_py, 446, S_lambda, <<>> >> >>))
         ELSE IF outcome.o = "raises" THEN outcome
         ELSE Returns(PyNone)
    ELSE outcome

\* an except clause that swallows the exception and marshals nothing
ServeRpcExceptLax(d, exn) == d

\* a frame written with line and column in each other's place
WriteFrameSwapped(d, filename, line, column, function) ==
    WriteFlush(WriteString(WriteInt32(WriteInt32(WriteString(d, filename), column),
                                      line), function))

\* the traceback frame (filename, line, column, function), then the flush
WriteFrame(d, filename, line, column, function) ==
    WriteFlush(WriteString(WriteInt32(WriteInt32(WriteString(d, filename), line),
                                      column), function))

\* the except clause of _serve_rpc
ServeRpcExcept(d, exn) ==
    Let(WriteHeader(d, RPC_EXCEPTION), LAMBDA h :
    IF exn.carries
    THEN Let(WriteInt64(WriteInt64(WriteInt64(
                 WriteString(WriteString(h, exn.core.name), exn.core.message),
                 exn.core.param[1]), exn.core.param[2]), exn.core.param[3]),
             LAMBDA b :
             IF exn.core.traceback = <<>> THEN Raise(b, "IndexError")
             ELSE Let(exn.core.traceback[Len(exn.core.traceback)], LAMBDA fr :
                      IF Len(fr) # 4 THEN Raise(b, "ValueError")
                      ELSE WriteFrame(b, fr[1], fr[2], fr[3], fr[4])))
    ELSE Let(IF WellKnown(exn.type) \/ exn.type.builtin
             THEN WriteString(h, <<48, 58>> \o exn.type.name)
             ELSE Let(StoreObject(h, PyObject(exn.type)), LAMBDA exn_id :
                      WriteString(exn_id, ToDec(exn_id.ret) \o <<58>> \o
                                  exn.type.module \o <<46>> \o exn.type.name)),
             LAMBDA n :
         Let(WriteInt64(WriteInt64(WriteInt64(WriteString(n, exn.msg),
                                              PyInt(0)), PyInt(0)), PyInt(0)),
             LAMBDA z :
             IF Len(exn.tb) \notin {1, 2} THEN Raise(z, "AssertionError")
             ELSE Let(exn.tb[Len(exn.tb)], LAMBDA fr :
                      WriteFrame(z, fr[1], fr[2], -1, fr[3])))))

\* the try statement of _serve_rpc
ServeRpcTry(d, service_id, return_tags, result) ==
    Let(IF result.o = "raises" THEN RaiseExn(d, "ServiceException", result.x)
        ELSE IF service_id # 0
        THEN WriteFlush(SendRpcValue(WriteBytes(WriteHeader(d, RPC_REPLY), return_tags),
                                     return_tags, result.x).d)
        ELSE d,
        LAMBDA try :
        [(IF try.err = NoErr THEN try
          ELSE ServeRpcExcept([try EXCEPT !.err = NoErr], ExnOf(try)))
         EXCEPT !.rpc = [served |-> TRUE, service_id |-> service_id,
                         return_tags |-> return_tags, result |-> result,
                         caught |-> try.err, tries |-> try.wtries]])

\* a _serve_rpc that leaves the request unread and unanswered
ServeRpcUnread(d, outcome) == d

ServeRpc(d, outcome) ==
    Let(ReadInt32(d), LAMBDA service_id :
    Let(IF service_id.err # NoErr \/ service_id.ret = 0 THEN service_id
        ELSE RetrieveObject(service_id, service_id.ret), LAMBDA service :
    Let(ReceiveRpcArgs(service), LAMBDA call :
    Let(ReadBytes(call), LAMBDA return_tags :
        IF return_tags.err # NoErr THEN return_tags
        ELSE Let(ServeRpcTry(return_tags, service_id.ret, return_tags.ret,
                             Service(service_id.ret, call.ret.args, call.ret.kwargs,
                                     outcome)),
                 LAMBDA done :
                 [done EXCEPT !.rpc = [@ EXCEPT !.served = TRUE] @@
                                      [args |-> call.ret.args,
                                       kwargs |-> call.ret.kwargs,
                                       writes |-> done.wtries]])))))

\* a pass of serve without the branches for WATCHDOG_EXPIRED and CLOCK_FAILURE
ServeNoFaults(d, outcome) ==
    Let(ReadHeader(d), LAMBDA h :
        IF h.err # NoErr THEN h
        ELSE IF h.read_type = RPC_REQUEST THEN ServeRpc(h, outcome)
        ELSE IF h.read_type = KERNEL_EXCEPTION THEN ServeException(h)
        ELSE ReadExpect(h, KERNEL_FINISHED))

\* one pass of the while loop of serve
Serve(d, outcome) ==
    Let(ReadHeader(d), LAMBDA h :
        IF h.err # NoErr THEN h
        ELSE IF h.read_type = RPC_REQUEST THEN ServeRpc(h, outcome)
        ELSE IF h.read_type = KERNEL_EXCEPTION THEN ServeException(h)
        ELSE IF h.read_type = WATCHDOG_EXPIRED THEN Raise(h, "WatchdogExpired")
        ELSE IF h.read_type = CLOCK_FAILURE THEN Raise(h, "ClockFailure")
        ELSE ReadExpect(h, KERNEL_FINISHED))

\* run
Run(d) == WriteEmpty(d, RUN_KERNEL)

(***************************************************************************)
(* Committing a driver record to the state                                 *)
(***************************************************************************)
Outcome(d) == IF d.err = NoErr THEN "ok" ELSE d.err

Commit(d) ==
    /\ read_type' = d.read_type
    /\ read_length' = d.read_length
    /\ write_type' = d.write_type
    /\ write_buffer' = d.write_buffer
    /\ inb' = d.inb
    /\ outb' = d.outb
    /\ status' = Outcome(d)
    /\ ret' = IF d.err \in {NoErr, "KernelException"} THEN d.ret ELSE PyNone
    /\ emap' = d.emap
    /\ UNCHANGED <<scan, iters, loops>>

SeqsUpTo(S, n) == UNION {[1..k -> S] : k \in 0..n}

(***************************************************************************)
(* SpecFrame: one envelope is framed by the writer interface, travels the  *)
(* channel behind a prefix G of garbage, and is parsed by the reader       *)
(* interface.                                                              *)
(***************************************************************************)
MaxPayload == 2
MaxGarbage == 4
PayloadBytes == {0, 90, 255}
GarbageBytes == {0, 90}

\* no four consecutive 0x5a
NoQuad(G) == \A i \in 1..(Len(G) - 3) :
                ~(G[i] = 90 /\ G[i+1] = 90 /\ G[i+2] = 90 /\ G[i+3] = 90)

FrameInit ==
    /\ read_type = NewComm.read_type
    /\ read_length = NewComm.read_length
    /\ write_type = NewComm.write_type
    /\ write_buffer = NewComm.write_buffer
    /\ inb = <<>>
    /\ outb = <<>>
    /\ status = "ok"
    /\ ret = PyNone
    /\ pc = "f_start"
    /\ args \in [T : H2DMsgType \cap D2HMsgType,
                 P : SeqsUpTo(PayloadBytes, MaxPayload),
                 G : {g \in SeqsUpTo(GarbageBytes, MaxGarbage) : NoQuad(g)}]
    /\ evlog = <<>>
    /\ inflight = 0
    /\ nops = 0
    /\ emap = <<>>
    /\ NoScanning

FWriteHeader ==
    /\ pc = "f_start"
    /\ Commit(WriteHeader(Cur, args.T))
    /\ pc' = "f_header"
    /\ UNCHANGED <<args, evlog, inflight, nops>>

FWriteChunk ==
    /\ pc = "f_header"
    /\ Commit(WriteChunk(Cur, args.P))
    /\ pc' = "f_chunk"
    /\ UNCHANGED <<args, evlog, inflight, nops>>

FWriteFlush ==
    /\ pc = "f_chunk"
    /\ Commit(WriteFlush(Cur))
    /\ pc' = "f_flushed"
    /\ UNCHANGED <<args, evlog, inflight, nops>>

\* the channel delivers the garbage and then the envelope
FWire ==
    /\ pc = "f_flushed"
    /\ inb' = args.G \o outb
    /\ pc' = "f_wire"
    /\ UNCHANGED <<read_type, read_length, write_type, write_buffer, outb,
                   status, ret, args, evlog, inflight, nops, emap, scan, iters, loops>>

FReadHeader ==
    /\ pc = "f_wire"
    /\ Commit(Return(ReadHeader(Cur), PyNone))
    /\ pc' = "f_parsed"
    /\ UNCHANGED <<args, evlog, inflight, nops>>

FReadChunk ==
    /\ pc = "f_parsed"
    /\ status = "ok"
    /\ Commit(Let(ReadChunk(Cur, Len(args.P)), LAMBDA c : Return(c, PyBytes(c.ret))))
    /\ pc' = "f_done"
    /\ UNCHANGED <<args, evlog, inflight, nops>>

FrameNext == \/ FWriteHeader \/ FWriteChunk \/ FWriteFlush
             \/ FWire \/ FReadHeader \/ FReadChunk

SpecFrame == FrameInit /\ [][FrameNext]_vars

\* _read_header on the envelope alone, by a driver that has read nothing yet
ParseAlone(E) == ReadHeader([Cur EXCEPT !.read_type = None, !.read_length = 0,
                                        !.inb = E])

\* C1: an envelope of type T and payload P written by _write_header,
\* _write_chunk, _write_flush and fed to _read_header gives type T and
\* remaining = |P|; _read_chunk(|P|) then returns P and leaves remaining = 0.
C1_EnvelopeRoundtrip ==
    /\ (pc = "f_parsed" /\ args.G = <<>>) =>
           /\ status = "ok"
           /\ read_type = args.T
           /\ read_length = Len(args.P)
    /\ (pc = "f_done" /\ args.G = <<>>) =>
           /\ status = "ok"
           /\ ret = PyBytes(args.P)
           /\ read_length = 0
           /\ inb = <<>>

C1_Witness ==
    /\ pc = "f_done" /\ args.G = <<>> /\ args.P = <<90, 255>> /\ args.T = 12
    /\ status = "ok"

\* C2 as stated: behind any garbage G without four consecutive 0x5a (G may
\* end with one, two or three 0x5a), _read_header ends with the type and
\* the remaining count it gives on the envelope alone.
C2_Resync ==
    (pc = "f_parsed" /\ NoQuad(args.G)) =>
        /\ status = Outcome(ParseAlone(outb))
        /\ read_type = ParseAlone(outb).read_type
        /\ read_length = ParseAlone(outb).read_length

\* C2 amended: the same, for garbage that does not end with a 0x5a byte.
C2_ResyncNoTrailingSync ==
    (/\ pc = "f_parsed" /\ NoQuad(args.G)
     /\ (args.G = <<>> \/ args.G[Len(args.G)] # 90)) =>
        /\ status = "ok"
        /\ read_type = ParseAlone(outb).read_type
        /\ read_length = ParseAlone(outb).read_length
        /\ read_type = args.T
        /\ read_length = Len(args.P)

C2_Witness ==
    /\ pc = "f_parsed" /\ args.G = <<90, 90, 90, 0>> /\ status = "ok"
    /\ read_type = args.T /\ args.P # <<>>

\* C23: _write_flush writes the envelope with length 9 + the sizes of the
\* pending chunks and then the chunks in the order of their appending, and
\* when it has returned no byte is pending in _write_buffer, so that a second
\* _write_flush would carry no body.
C23_FlushClearsBuilder ==
    pc = "f_flushed" =>
        /\ status = "ok"
        /\ outb = <<90, 90, 90, 90>> \o Pack_l(9 + Len(args.P)) \o <<args.T>> \o args.P
        /\ SumLen(write_buffer) = 0
        /\ WriteFlush(Cur).outb = outb \o <<90, 90, 90, 90>> \o Pack_l(9) \o <<args.T>>

(***************************************************************************)
(* Spec: a session of control operations against a device.  The device     *)
(* answers every request with one envelope of any type and body.           *)
(***************************************************************************)
MaxOps == 2

\* what the device writes: an envelope (session.c frames it like _write_flush)
Envelope(ty, body) == <<90, 90, 90, 90>> \o Pack_l(9 + Len(body)) \o <<ty>> \o body

ReplyBodies == {<<>>, <<0>>, AROR \o <<49>>}
DeviceReplies == {Envelope(ty, body) : ty \in D2HMsgType, body \in ReplyBodies}
Keys == {<<107>>}
Blobs == {<<170, 187>>}

\* the answers check_ident accepts
GoodIdentReplies == {Envelope(IDENT_REPLY, AROR \o v) : v \in {<<>>, <<49>>}}

ControlOps == {"check_ident", "switch_clock", "get_log", "clear_log",
               "flash_storage_read", "flash_storage_write", "flash_storage_erase",
               "flash_storage_remove", "load"}

\* requests written and not yet answered by a header read
RECURSIVE InFlight(_, _)
InFlight(n, ev) ==
    IF ev = <<>> THEN n
    ELSE InFlight(IF Head(ev) = "W" THEN n + 1 ELSE IF n > 0 THEN n - 1 ELSE 0,
                  Tail(ev))

RECURSIVE PeakInFlight(_, _)
PeakInFlight(n, ev) ==
    IF ev = <<>> THEN n
    ELSE LET m == InFlight(n, <<Head(ev)>>)
             rest == PeakInFlight(m, Tail(ev))
         IN  IF rest > m THEN rest ELSE m

Begin == [Cur EXCEPT !.outb = <<>>]

Step(name, d, reply) ==
    /\ Commit(d)
    /\ pc' = name
    /\ args' = [good_ident |-> reply \in GoodIdentReplies,
                after_full |-> (pc = "flash_storage_write"
                                /\ status = "Flash storage is full"),
                clean |-> (args.clean /\ status = "ok"),
                peak |-> PeakInFlight(inflight, d.evlog)]
    /\ evlog' = d.evlog
    /\ inflight' = InFlight(inflight, d.evlog)
    /\ nops' = nops + 1

Init ==
    /\ read_type = NewComm.read_type
    /\ read_length = NewComm.read_length
    /\ write_type = NewComm.write_type
    /\ write_buffer = NewComm.write_buffer
    /\ inb = <<>>
    /\ outb = <<>>
    /\ status = "ok"
    /\ ret = PyNone
    /\ pc = "idle"
    /\ args = [good_ident |-> FALSE, after_full |-> FALSE, clean |-> TRUE, peak |-> 0]
    /\ evlog = <<>>
    /\ inflight = 0
    /\ nops = 0
    /\ emap = <<>>
    /\ NoScanning

check_ident ==
    \E reply \in DeviceReplies :
        /\ nops < MaxOps
        /\ Step("check_ident", CheckIdent(Begin, reply), reply)

switch_clock ==
    \E reply \in DeviceReplies, external \in {0, 1} :
        /\ nops < MaxOps
        /\ Step("switch_clock", SwitchClock(Begin, external, reply), reply)

get_log ==
    \E reply \in DeviceReplies :
        /\ nops < MaxOps
        /\ Step("get_log", GetLog(Begin, reply), reply)

clear_log ==
    \E reply \in DeviceReplies :
        /\ nops < MaxOps
        /\ Step("clear_log", ClearLog(Begin, reply), reply)

flash_storage_read ==
    \E reply \in DeviceReplies, key \in Keys :
        /\ nops < MaxOps
        /\ Step("flash_storage_read", FlashStorageRead(Begin, key, reply), reply)

flash_storage_write ==
    \E reply \in DeviceReplies, key \in Keys, value \in Blobs :
        /\ nops < MaxOps
        /\ Step("flash_storage_write", FlashStorageWrite(Begin, key, value, reply), reply)

flash_storage_erase ==
    \E reply \in DeviceReplies :
        /\ nops < MaxOps
        /\ Step("flash_storage_erase", FlashStorageErase(Begin, reply), reply)

flash_storage_remove ==
    \E reply \in DeviceReplies, key \in Keys :
        /\ nops < MaxOps
        /\ Step("flash_storage_remove", FlashStorageRemove(Begin, key, reply), reply)

load ==
    \E reply \in DeviceReplies, kernel_library \in Blobs :
        /\ nops < MaxOps
        /\ Step("load", Load(Begin, kernel_library, reply), reply)

Next == \/ check_ident \/ switch_clock \/ get_log \/ clear_log
        \/ flash_storage_read \/ flash_storage_write \/ flash_storage_erase
        \/ flash_storage_remove \/ load

Spec == Init /\ [][Next]_vars

RequestType(op) ==
    CASE op = "check_ident" -> IDENT_REQUEST
      [] op = "switch_clock" -> SWITCH_CLOCK
      [] op = "get_log" -> LOG_REQUEST
      [] op = "clear_log" -> LOG_CLEAR
      [] op = "flash_storage_read" -> FLASH_READ_REQUEST
      [] op = "flash_storage_write" -> FLASH_WRITE_REQUEST
      [] op = "flash_storage_erase" -> FLASH_ERASE_REQUEST
      [] op = "flash_storage_remove" -> FLASH_REMOVE_REQUEST
      [] op = "load" -> LOAD_LIBRARY

ExpectedReply(op) ==
    CASE op = "check_ident" -> IDENT_REPLY
      [] op = "switch_clock" -> CLOCK_SWITCH_COMPLETED
      [] op = "get_log" -> LOG_REPLY
      [] op = "clear_log" -> LOG_REPLY
      [] op = "flash_storage_read" -> FLASH_READ_REPLY
      [] op = "flash_storage_write" -> FLASH_OK_REPLY
      [] op = "flash_storage_erase" -> FLASH_OK_REPLY
      [] op = "flash_storage_remove" -> FLASH_OK_REPLY
      [] op = "load" -> LOAD_COMPLETED

\* bytes is exactly one envelope of type ty
OneEnvelope(bytes, ty) ==
    /\ Len(bytes) >= 9
    /\ SubSeq(bytes, 1, 4) = <<90, 90, 90, 90>>
    /\ Unpack_l(SubSeq(bytes, 5, 8)) = Len(bytes)
    /\ bytes[9] = ty

\* the errors _read_header raises; with any other outcome the operation has
\* read a header and read_type is its type
HeaderErrors == {"Read underrun", "transport", "Connection closed", "ValueError",
                 "Read overrun in message header"}

HeaderRead == pc \in ControlOps /\ status \notin HeaderErrors

\* C3: in a sequence of control operations (here: each one issued after the
\* ones before it returned normally) every operation writes exactly one
\* complete envelope and then reads exactly one inbound header, and never are
\* two requests in flight.
C3_RequestReply ==
    (pc \in ControlOps /\ args.clean) =>
        /\ OneEnvelope(outb, RequestType(pc))
        /\ evlog = <<"W", "R">>
        /\ args.peak <= 1
        /\ inflight = 0

\* C4: a header of another type than the expected one (and, for
\* flash_storage_write, than FLASH_ERROR_REPLY) makes the operation fail with
\* "Incorrect reply".
C4_UnexpectedReply ==
    (/\ HeaderRead
     /\ read_type # ExpectedReply(pc)
     /\ ~(pc = "flash_storage_write" /\ read_type = FLASH_ERROR_REPLY)) =>
        status = "Incorrect reply"

C4_Witness ==
    /\ pc = "flash_storage_remove" /\ nops = 2
    /\ read_type = FLASH_ERROR_REPLY /\ status = "Incorrect reply"

\* C5: FLASH_ERROR_REPLY makes flash_storage_write fail with "flash full",
\* and a check_ident that follows and is answered correctly succeeds.
C5_FlashFullLocalized ==
    /\ (/\ pc = "flash_storage_write" /\ HeaderRead
        /\ read_type = FLASH_ERROR_REPLY) => status = "Flash storage is full"
    /\ (/\ pc = "check_ident"
        /\ args.after_full
        /\ args.good_ident) => status = "ok"

\* C22: whenever a control operation returns normally the reply message has
\* been drained (_read_length = 0), whatever body the device sent; this
\* includes the operations that read their reply through _read_empty.
C22_DrainedAfterDispatch ==
    (pc \in ControlOps /\ status = "ok") => read_length = 0

(***************************************************************************)
(* SpecServe: a kernel is started with run and serve handles what the      *)
(* device sends, one message for each pass of its loop.  The device sends  *)
(* any message; the service called for an RPC returns any value or raises  *)
(* any exception.                                                          *)
(***************************************************************************)
\* RPC requests served over the life of the driver
MaxRpc == 1

\* how the device writes a string: length-prefixed, NUL-terminated
DevString(str) == Pack_l(Len(Utf8Encode(str)) + 1) \o Utf8Encode(str) \o <<0>>

\* the body of a KERNEL_EXCEPTION message raised at k.py:3:4 in function
KernelExceptionBodyIn(name, message, p1, function, backtrace) ==
    DevString(name) \o DevString(message) \o Pack_q32(p1) \o Pack_q32(0) \o Pack_q32(0)
    \o DevString(<<107, 46, 112, 121>>) \o Pack_l(3) \o Pack_l(4)
    \o DevString(function) \o Pack_l(Len(backtrace))
    \o Flatten([j \in 1..Len(backtrace) |-> Pack_l(backtrace[j])])

\* the body of a KERNEL_EXCEPTION message raised in "_Zk"
KernelExceptionBody(name, message, p1, backtrace) ==
    KernelExceptionBodyIn(name, message, p1, <<95, 90, 107>>, backtrace)

\* "0:ValueError", "2:m.E", "0:Nope", "ValueError"
ExceptionNames == { <<48, 58>> \o S_ValueError, <<50, 58, 109, 46, 69>>,
                    <<48, 58, 78, 111, 112, 101>>, S_ValueError }

\* "bad", "bad {0}"
ExceptionMessages == { <<98, 97, 100>>, <<98, 97, 100, 32, 123, 48, 125>> }

KernelExceptions ==
    {Envelope(KERNEL_EXCEPTION, KernelExceptionBody(n, m, 7, <<16>>)) :
        n \in ExceptionNames, m \in ExceptionMessages}

\* the service of id 1 and the exception class of id 2
ServiceObject == PyObject(ExnType(<<109>>, <<102>>, FALSE))
ExceptionClass == PyObject(ExnType(<<109>>, <<69>>, FALSE))

\* what the device sent in the KERNEL_EXCEPTION messages whose exceptions
\* a service raises again: the functions are "_Zk" and "k"
ReceivedFields ==
    { [name |-> <<48, 58>> \o S_ValueError, message |-> <<98, 97, 100>>,
       function |-> <<95, 90, 107>>],
      [name |-> <<48, 58>> \o S_ValueError, message |-> <<98, 97, 100>>,
       function |-> <<107>>],
      [name |-> <<50, 58, 109, 46, 69>>, message |-> <<98, 97, 100, 32, 123, 48, 125>>,
       function |-> <<107>>] }

\* the exception serve raises for a KERNEL_EXCEPTION of the given body
DecodedException(body) ==
    ServeException([Cur EXCEPT !.inb = body, !.read_length = Len(body),
                               !.emap = <<ServiceObject, ExceptionClass>>]).ret

ServiceFrames == << <<S_comm_generic_py, 455, S_serve_rpc, <<>> >>,
                    <<<<115, 46, 112, 121>>, 3, <<102>>, <<>> >> >>

ServiceExceptions ==
    { Exn(ExnType(S_builtins, S_ValueError, FALSE), <<98, 97, 100>>, ServiceFrames),
      Exn(ExnType(<<109>>, <<69>>, FALSE), <<120>>, ServiceFrames),
      Exn(ExnType(<<109>>, <<81>>, FALSE), <<120>>, <<ServiceFrames[1]>>),
      Exn(ExnType(<<109>>, <<66>>, TRUE), <<>>, ServiceFrames),
      DecodedException(KernelExceptionBody(<<48, 58>> \o S_ValueError,
                                           <<98, 97, 100>>, 7, <<16>>)) }
    \cup { DecodedException(KernelExceptionBodyIn(f.name, f.message, 7, f.function,
                                                  <<16>>)) : f \in ReceivedFields }

Range12 == PyRange(PyInt(1), PyInt(2), PyInt(1))

ReturnValues ==
    { PyNone, PyBool(1), PyInt(5), PyInt(2147483647), PyBigInt(1, <<0, 0, 0, 0>>),
      PyFloat(0, 1023, 524288), PyFraction(PyInt(1), PyInt(2)), PyStr(<<97>>),
      PyList(<<>>), PyList(<<PyInt(1)>>),
      PyTuple(<<PyInt(1), PyNone>>),
      PyTuple(<<PyList(<<PyList(<<PyInt(1)>>)>>), PyInt(5)>>),
      PyTuple(<<Range12, PyInt(5)>>),
      Range12 }

ReturnTags ==
    { <<>>, <<TAG_n>>, <<TAG_b>>, <<TAG_i>>, <<TAG_I>>, <<TAG_f>>, <<TAG_F>>, <<TAG_s>>,
      <<TAG_l, TAG_i>>, <<TAG_r, TAG_i>>, <<TAG_O>>,
      <<TAG_t, 2, TAG_i, TAG_n>>,
      <<TAG_t, 2, TAG_l, TAG_l, TAG_i, TAG_n>>, <<TAG_t, 2, TAG_r, TAG_i, TAG_n>> }

\* the arguments of a request, the sentinel included: none; (object 1,
\* "x", 7); (7, k=None)
ArgStreams ==
    { <<0>>,
      <<TAG_O>> \o Pack_l(1) \o <<TAG_s>> \o DevString(<<120>>)
          \o <<TAG_i>> \o Pack_l(7) \o <<0>>,
      <<TAG_i>> \o Pack_l(7) \o <<TAG_k>> \o DevString(<<107>>) \o <<TAG_n>> \o <<0>> }

RpcRequest(service_id, arg_stream, return_tags) ==
    Envelope(RPC_REQUEST, Pack_l(service_id) \o arg_stream
                          \o Pack_l(Len(return_tags)) \o return_tags)

Outcomes == {Returns(v) : v \in ReturnValues} \cup {Raises(e) : e \in ServiceExceptions}

\* a request and what its service does: every return-tag stream with every
\* outcome; every service id with every argument list; requests cut short
Calls ==
    {<<RpcRequest(1, <<0>>, t), o>> : t \in ReturnTags, o \in Outcomes}
    \cup {<<RpcRequest(id, a, <<TAG_n>>), o>> :
              id \in {0, 1, 3}, a \in ArgStreams,
              o \in {Returns(PyNone), Raises(Exn(ExnType(S_builtins, S_ValueError, FALSE),
                                                <<98, 97, 100>>, ServiceFrames))}}
    \cup {<<Envelope(RPC_REQUEST, b), Returns(PyNone)>> :
              b \in {<<>>, Pack_l(1) \o <<TAG_i>>}}

OtherMessages ==
    {Envelope(ty, body) : ty \in D2HMsgType \ {RPC_REQUEST}, body \in {<<>>, <<0>>}}
    \cup KernelExceptions
    \cup { <<90, 90, 90, 90>> \o Pack_l(0), <<90, 90, 90, 90>> \o Pack_l(8) \o <<KERNEL_FINISHED>> }

ServeInit ==
    /\ read_type = NewComm.read_type
    /\ read_length = NewComm.read_length
    /\ write_type = NewComm.write_type
    /\ write_buffer = NewComm.write_buffer
    /\ inb = <<>>
    /\ outb = <<>>
    /\ status = "ok"
    /\ ret = PyNone
    /\ pc = "idle"
    /\ args = [rpc |-> NoRpc, msg |-> <<>>, header |-> 0, after_raise |-> FALSE]
    /\ evlog = <<>>
    /\ inflight = 0
    /\ nops = 0
    /\ emap = <<ServiceObject, ExceptionClass>>
    /\ NoScanning

\* run, which the caller follows with serve
run ==
    /\ pc \in {"idle", "returned"}
    /\ Commit(Run(Begin))
    /\ pc' = "serving"
    /\ args' = [rpc |-> NoRpc, msg |-> <<>>, header |-> 0, after_raise |-> FALSE]
    /\ evlog' = Run(Begin).evlog
    /\ UNCHANGED <<inflight, nops>>

\* one pass of serve over the message msg
\* the state after a pass of serve that ends with the driver record d
ServeDone(d, msg, header) ==
    /\ Commit(d)
    /\ pc' = IF d.err # NoErr THEN "raised"
             ELSE IF d.read_type = RPC_REQUEST THEN "serving" ELSE "returned"
    /\ args' = [rpc |-> d.rpc, msg |-> msg, header |-> header,
                after_raise |-> (args.rpc.served /\ args.rpc.result.o = "raises")]
    /\ evlog' = d.evlog
    /\ inflight' = inflight

\* the type of the header _read_header reads from d, 0 when it fails
HeaderOf(d) == Let(ReadHeader(d), LAMBDA h : IF h.err = NoErr THEN h.read_type ELSE 0)

\* one pass of serve over the message msg
ServeStep(msg, outcome) ==
    /\ pc = "serving"
    /\ ServeDone(Return(Serve(Deliver(Begin, msg), outcome), PyNone), msg,
                 HeaderOf(Deliver(Begin, msg)))

\* serve, a pass that handles an RPC request
serve_rpc ==
    \E call \in Calls :
        /\ nops < MaxRpc
        /\ ServeStep(call[1], call[2])
        /\ nops' = nops + 1

\* requests whose service returns a value the return tags accept
FaultCalls ==
    { <<RpcRequest(1, <<0>>, <<TAG_n>>), Returns(PyNone)>>,
      <<RpcRequest(1, <<0>>, <<TAG_i>>), Returns(PyInt(5))>>,
      <<RpcRequest(1, <<0>>, <<TAG_l, TAG_i>>), Returns(PyList(<<PyInt(1)>>))>> }

\* how many calls of write fail: the next one, the next two
Faults == {1, 2}

\* serve, a pass that handles an RPC request while the channel fails writes
serve_rpc_fault ==
    \E call \in FaultCalls, n \in Faults :
        /\ nops < MaxRpc
        /\ pc = "serving"
        /\ ServeDone(Return(Serve(Deliver([Begin EXCEPT !.wfail = n], call[1]), call[2]),
                            PyNone),
                     call[1], HeaderOf(Deliver(Begin, call[1])))
        /\ nops' = nops + 1

\* serve, a pass that handles any other message
serve ==
    \E msg \in OtherMessages :
        /\ ServeStep(msg, Returns(PyNone))
        /\ nops' = nops

ServeNext == run \/ serve_rpc \/ serve_rpc_fault \/ serve

SpecServe == ServeInit /\ [][ServeNext]_vars

\* the kernel exceptions whose name resolves: a builtin kind, a stored class
ResolvableExceptions ==
    {Envelope(KERNEL_EXCEPTION, KernelExceptionBody(n, m, 7, <<16>>)) :
        n \in { <<48, 58>> \o S_ValueError, <<50, 58, 109, 46, 69>> },
        m \in ExceptionMessages}

C7_ServiceExceptionContained ==
    [][ /\ (args'.rpc.served /\ args'.rpc.result.o = "raises") =>
               /\ pc' = "serving"
               /\ status' = "ok"
               /\ OneEnvelope(outb', RPC_EXCEPTION)
        /\ (/\ pc = "serving" /\ args.rpc.served /\ args.rpc.result.o = "raises"
            /\ args'.msg = Envelope(KERNEL_FINISHED, <<>>)) =>
               (pc' = "returned" /\ status' = "ok") ]_vars

C7_Witness ==
    /\ pc = "returned" /\ args.after_raise /\ status = "ok"
    /\ args.msg = Envelope(KERNEL_FINISHED, <<>>)

\* what _send_rpc_value appends to an empty builder for value against a
\* fresh copy of tags
Sent(tags, value) == SendRpcValue([Cur EXCEPT !.write_buffer = <<>>], tags, value).d

ScalarTags == {TAG_n, TAG_b, TAG_i, TAG_I, TAG_f, TAG_F, TAG_s}

NoMatch(tags, out) == [ok |-> FALSE, rest |-> tags, out |-> out]

RECURSIVE GrammarSkip(_)
RECURSIVE GrammarSkipN(_, _)

\* [ok, rest]: the stream behind n streams
GrammarSkipN(tags, n) ==
    IF n = 0 THEN [ok |-> TRUE, rest |-> tags]
    ELSE Let(GrammarSkip(tags), LAMBDA r :
             IF ~r.ok THEN r ELSE GrammarSkipN(r.rest, n - 1))

\* [ok, rest]: the stream behind the first stream of tags
GrammarSkip(tags) ==
    IF tags = <<>> THEN [ok |-> FALSE, rest |-> tags]
    ELSE IF tags[1] = TAG_t
         THEN IF Len(tags) < 2 THEN [ok |-> FALSE, rest |-> tags]
              ELSE GrammarSkipN(SubSeq(tags, 3, Len(tags)), tags[2])
    ELSE IF tags[1] \in {TAG_l, TAG_r} THEN GrammarSkip(Tail(tags))
    ELSE IF tags[1] \in ScalarTags THEN [ok |-> TRUE, rest |-> Tail(tags)]
    ELSE [ok |-> FALSE, rest |-> tags]

\* tags describe exactly one value
WellFormedTags(tags) == GrammarSkip(tags) = [ok |-> TRUE, rest |-> <<>>]

RECURSIVE Match(_, _)
RECURSIVE MatchTuple(_, _, _)
RECURSIVE MatchEach(_, _, _)

\* the values of a tuple against successive streams
MatchTuple(tags, elts, out) ==
    IF elts = <<>> THEN [ok |-> TRUE, rest |-> tags, out |-> out]
    ELSE Let(Match(tags, Head(elts)), LAMBDA r :
             IF ~r.ok THEN NoMatch(tags, out \o r.out)
             ELSE MatchTuple(r.rest, Tail(elts), out \o r.out))

\* the values of a list or of a range, each against the one stream
MatchEach(tags, elts, out) ==
    IF elts = <<>> THEN [ok |-> TRUE, rest |-> GrammarSkip(tags).rest, out |-> out]
    ELSE Let(Match(tags, Head(elts)), LAMBDA r :
             IF ~r.ok THEN NoMatch(tags, out \o r.out)
             ELSE MatchEach(tags, Tail(elts), out \o r.out))

\* [ok, rest, out]: whether value matches the first stream of well-formed
\* tags, the stream behind it, and the bytes of the value up to the first
\* point that does not match
Match(tags, value) ==
    IF tags[1] = TAG_t
    THEN IF value.k = "tuple" /\ Len(value.v) = tags[2]
         THEN MatchTuple(SubSeq(tags, 3, Len(tags)), value.v, <<>>)
         ELSE NoMatch(tags, <<>>)
    ELSE IF tags[1] = TAG_l
    THEN IF value.k = "list" THEN MatchEach(Tail(tags), value.v, Pack_l(Len(value.v)))
         ELSE NoMatch(tags, <<>>)
    ELSE IF tags[1] = TAG_r
    THEN IF value.k = "range" THEN MatchEach(Tail(tags), value.v, <<>>)
         ELSE NoMatch(tags, <<>>)
    ELSE IF \/ tags[1] = TAG_n /\ value.k = "none"
            \/ tags[1] = TAG_b /\ value.k = "bool"
            \/ tags[1] = TAG_i /\ value.k \in {"int", "bool"}
            \/ tags[1] = TAG_I /\ value.k \in {"int", "bool", "bigint"}
            \/ tags[1] = TAG_f /\ value.k = "float"
            \/ tags[1] = TAG_F /\ value.k = "Fraction"
            \/ tags[1] = TAG_s /\ value.k = "str"
                              /\ \A j \in 1..Len(value.v) : value.v[j] # 0
    THEN [ok |-> TRUE, rest |-> Tail(tags),
          out |-> IF tags[1] = TAG_n THEN <<>>
                  ELSE IF tags[1] = TAG_b THEN Pack_B(value.v)
                  ELSE IF tags[1] = TAG_i THEN Pack_l(value.v)
                  ELSE IF tags[1] = TAG_I THEN Pack_q(value)
                  ELSE IF tags[1] = TAG_f THEN Pack_d(value.v)
                  ELSE IF tags[1] = TAG_F THEN Pack_q(value.v[1]) \o Pack_q(value.v[2])
                  ELSE DevString(value.v)]
    ELSE NoMatch(tags, <<>>)

\* C9: for well-formed return tags and a returned value that does not match
\* them, _send_rpc_value fails with RPCReturnValueError having appended
\* the bytes of the value before the first point that does not match and
\* none after, and the channel gets one RPC_EXCEPTION envelope, no byte of
\* the RPC_REPLY.
C9_MismatchRejected ==
    (/\ args.rpc.served /\ args.rpc.service_id # 0 /\ args.rpc.result.o = "returns"
     /\ WellFormedTags(args.rpc.return_tags)
     /\ ~Match(args.rpc.return_tags, args.rpc.result.x).ok) =>
        /\ args.rpc.caught = "RPCReturnValueError"
        /\ Sent(args.rpc.return_tags, args.rpc.result.x).err = "RPCReturnValueError"
        /\ Flatten(Sent(args.rpc.return_tags, args.rpc.result.x).write_buffer)
               = Match(args.rpc.return_tags, args.rpc.result.x).out
        /\ OneEnvelope(outb, RPC_EXCEPTION)

\* C10: when the service returns a value _send_rpc_value rejects with
\* RPCReturnValueError, serve raises that error to its caller, and the
\* device gets an RPC_EXCEPTION envelope.
C10_TypeErrorRaisedAndMarshalled ==
    (args.rpc.served /\ args.rpc.caught = "RPCReturnValueError") =>
        /\ pc = "raised"
        /\ status = "RPCReturnValueError"
        /\ OneEnvelope(outb, RPC_EXCEPTION)

(***************************************************************************)
(* SpecCodec: the tagged value codec by itself.  Either a value is sent    *)
(* against a tag stream and the bytes that came out are handed to          *)
(* _receive_rpc_value, or an argument stream as the device writes it is    *)
(* handed to _receive_rpc_args.                                            *)
(***************************************************************************)
MaxItems == 3

\* how the device writes a value: its tag, then the bytes
\* _receive_rpc_value reads behind that tag
RECURSIVE DevValue(_)
DevValue(value) ==
    IF value.k = "none" THEN <<TAG_n>>
    ELSE IF value.k = "bool" THEN <<TAG_b>> \o Pack_B(value.v)
    ELSE IF value.k = "int" THEN <<TAG_i>> \o Pack_l(value.v)
    ELSE IF value.k = "bigint" THEN <<TAG_I>> \o Pack_q(value)
    ELSE IF value.k = "str" THEN <<TAG_s>> \o DevString(value.v)
    ELSE IF value.k = "list"
         THEN <<TAG_l>> \o Pack_l(Len(value.v))
              \o Flatten([j \in 1..Len(value.v) |-> DevValue(value.v[j])])
    ELSE IF value.k = "tuple"
         THEN <<TAG_t, Len(value.v)>>
              \o Flatten([j \in 1..Len(value.v) |-> DevValue(value.v[j])])
    ELSE IF value.k = "RPCKeyword"
         THEN <<TAG_k>> \o DevString(value.v[1]) \o DevValue(value.v[2])
    ELSE <<0>>

\* the arguments of a request as the device writes them, the sentinel last
DevArgs(items) == Flatten([j \in 1..Len(items) |-> DevValue(items[j])]) \o <<0>>

\* -2**31, -2**31+1, 2**31-2, 2**31-1, 2**31, -2**63, -2**63+1, 2**63-2,
\* 2**63-1, 2**63, -2**63-1
BoundaryInts ==
    { PyInt((-2147483647) - 1), PyInt(-2147483647), PyInt(2147483646),
      PyInt(2147483647), PyBigInt(0, <<128, 0, 0, 0>>),
      PyBigInt((-2147483647) - 1, <<0, 0, 0, 0>>),
      PyBigInt((-2147483647) - 1, <<0, 0, 0, 1>>),
      PyBigInt(2147483647, <<255, 255, 255, 254>>),
      PyBigInt(2147483647, <<255, 255, 255, 255>>),
      PyHugeInt(1), PyHugeInt(-1) }

CodecValues == ReturnValues \cup BoundaryInts \cup {ServiceObject, PyInt(0), PyStr(<<>>)}

\* "k", "j"
KeywordNames == { <<107>>, <<106>> }

ItemValues == { PyNone, PyInt(7), PyStr(<<120>>), PyTuple(<<PyInt(1), PyBool(0)>>) }

ArgItems == ItemValues \cup {RPCKeyword(n, v) : n \in KeywordNames, v \in ItemValues}

\* bytes that follow the sentinel on the channel
Trailing == { <<>>, <<TAG_i, 0>> }

CodecInit ==
    /\ read_type = RPC_REQUEST
    /\ read_length = 0
    /\ write_type = RPC_REPLY
    /\ write_buffer = <<>>
    /\ inb = <<>>
    /\ outb = <<>>
    /\ status = "ok"
    /\ ret = PyNone
    /\ pc = "start"
    /\ \/ \E t \in ReturnTags, v \in CodecValues :
              args = [op |-> "value", tags |-> t, value |-> v, items |-> <<>>,
                      trailing |-> <<>>]
       \/ \E it \in SeqsUpTo(ArgItems, MaxItems), tr \in Trailing :
              args = [op |-> "args", tags |-> <<>>, value |-> PyNone, items |-> it,
                      trailing |-> tr]
    /\ evlog = <<>>
    /\ inflight = 0
    /\ nops = 0
    /\ emap = <<ServiceObject, ExceptionClass>>
    /\ NoScanning

\* the state after a codec operation that ends with the driver record d
CodecDone(name, d) ==
    /\ Commit(d)
    /\ pc' = name
    /\ evlog' = d.evlog
    /\ UNCHANGED <<args, inflight, nops>>

\* _send_rpc_value(bytearray(tags), value, value, function) into an empty
\* builder
send_rpc_value ==
    /\ pc = "start" /\ args.op = "value"
    /\ CodecDone("sent", SendRpcValue(Cur, args.tags, args.value).d)

\* _receive_rpc_value over the bytes the builder holds
receive_rpc_value ==
    /\ pc = "sent" /\ status = "ok"
    /\ CodecDone("received",
                 ReceiveRpcValue([Cur EXCEPT !.inb = Flatten(write_buffer),
                                             !.read_length = SumLen(write_buffer)]))

\* _receive_rpc_args over the arguments the device wrote and what follows them
receive_rpc_args ==
    /\ pc = "start" /\ args.op = "args"
    /\ CodecDone("collated",
                 ReceiveRpcArgs([Cur EXCEPT !.inb = DevArgs(args.items) \o args.trailing,
                                            !.read_length = Len(DevArgs(args.items))
                                                            + Len(args.trailing)]))

CodecNext == send_rpc_value \/ receive_rpc_value \/ receive_rpc_args

SpecCodec == CodecInit /\ [][CodecNext]_vars

\* Python ==: a bool equals the int of its value, sequences are equal
\* element by element
RECURSIVE PyEq(_, _)
PyEq(a, b) ==
    IF a.k \in {"int", "bool"} /\ b.k \in {"int", "bool"} THEN a.v = b.v
    ELSE /\ a.k = b.k
         /\ IF a.k \in {"list", "tuple", "range"}
            THEN /\ Len(a.v) = Len(b.v)
                 /\ \A j \in 1..Len(a.v) : PyEq(a.v[j], b.v[j])
            ELSE a.v = b.v

\* C11: for tags that describe one value over n, b, i, I, f, F, s, t, l, r
\* and a value that matches them, _receive_rpc_value over the bytes
\* _send_rpc_value emitted returns that value.
C11_TaggedRoundtrip ==
    (/\ args.op = "value" /\ WellFormedTags(args.tags) /\ Match(args.tags, args.value).ok
     /\ pc \in {"sent", "received"}) =>
        /\ status = "ok"
        /\ pc = "received" => PyEq(ret, args.value)

\* the positional values of items, in order
Positional(items) == SelectSeq(items, LAMBDA x : x.k # "RPCKeyword")

\* the mapping of the keywords of items, as its set of (name, value) pairs:
\* of the items of one name, the last
LastWins(items) ==
    { items[j].v : j \in { j \in 1..Len(items) :
                              /\ items[j].k = "RPCKeyword"
                              /\ \A i \in (j + 1)..Len(items) :
                                     ~(items[i].k = "RPCKeyword"
                                       /\ items[i].v[1] = items[j].v[1]) } }

\* C12: over top-level positional and k-tagged values ended by the \0 tag,
\* _receive_rpc_args returns the positional values in the order received
\* and the mapping from keyword name to value in which the last occurrence
\* of a name wins, and it reads nothing behind the sentinel.
C12_KeywordCollation ==
    pc = "collated" =>
        /\ status = "ok"
        /\ ret.args = Positional(args.items)
        /\ {ret.kwargs[j] : j \in 1..Len(ret.kwargs)} = LastWins(args.items)
        /\ \A i, j \in 1..Len(ret.kwargs) : ret.kwargs[i][1] = ret.kwargs[j][1] => i = j
        /\ inb = args.trailing
        /\ read_length = Len(args.trailing)

C12_Witness ==
    /\ pc = "collated"
    /\ args.items = <<RPCKeyword(<<107>>, PyNone), PyInt(7), RPCKeyword(<<107>>, PyStr(<<120>>))>>
    /\ args.trailing = <<TAG_i, 0>>
    /\ ret.args = <<PyInt(7)>>
    /\ ret.kwargs = << <<(<<107>>), PyStr(<<120>>)>> >>
    /\ inb = <<TAG_i, 0>>

\* the id store_object gives obj when the map is emap_: the one it has, or
\* the next free one
StoredId(emap_, obj) ==
    IF \E id \in 1..Len(emap_) : emap_[id] = obj
    THEN CHOOSE id \in 1..Len(emap_) : emap_[id] = obj
    ELSE Len(emap_) + 1

\* the types the claim names with the id 0
NamedBuiltin(ty) ==
    \/ ty \in {ExnType(S_builtins, n, FALSE) :
                  n \in {S_ZeroDivisionError, S_ValueError, S_IndexError}}
    \/ ty.builtin

\* the name the claim gives the exception type ty when the map is emap_
HostExceptionName(emap_, ty) ==
    IF NamedBuiltin(ty)
    THEN <<48, 58>> \o ty.name
    ELSE ToDec(StoredId(emap_, PyObject(ty))) \o <<58>> \o ty.module \o <<46>> \o ty.name

\* an RPC_EXCEPTION envelope of the given name, message, first parameter
\* (the other two zero) and frame
RpcException(name, message, p1, file, line, column, function) ==
    Envelope(RPC_EXCEPTION,
             DevString(name) \o DevString(message)
             \o p1 \o Pack_q32(0) \o Pack_q32(0)
             \o DevString(file) \o Pack_l(line) \o Pack_l(column) \o DevString(function))

\* C13: when the service raises an exception that carries no core-exception
\* record, the pass writes an RPC_EXCEPTION whose name is "0:TypeName" for
\* ZeroDivisionError, ValueError, IndexError and types flagged builtin, and
\* else "<id>:<module>.<qualname>", id being what storing the type in the
\* embedding map gives; the message is that of the exception, the three
\* params are zero, the frame is the last of the traceback, the column -1.
C13_HostExceptionNaming ==
    [][ (/\ args'.rpc.served /\ args'.rpc.result.o = "raises"
         /\ ~args'.rpc.result.x.carries) =>
            /\ outb' = RpcException(
                   HostExceptionName(emap, args'.rpc.result.x.type),
                   args'.rpc.result.x.msg, Pack_q32(0),
                   args'.rpc.result.x.tb[Len(args'.rpc.result.x.tb)][1],
                   args'.rpc.result.x.tb[Len(args'.rpc.result.x.tb)][2],
                   -1,
                   args'.rpc.result.x.tb[Len(args'.rpc.result.x.tb)][3])
            /\ emap' = IF NamedBuiltin(args'.rpc.result.x.type)
                          \/ \E id \in 1..Len(emap) :
                                 emap[id] = PyObject(args'.rpc.result.x.type)
                       THEN emap
                       ELSE Append(emap, PyObject(args'.rpc.result.x.type)) ]_vars

\* the service raised m.Q, a type the map did not hold: it is stored as 3
C13_Witness ==
    /\ args.rpc.served /\ args.rpc.result.o = "raises"
    /\ args.rpc.result.x.type = ExnType(<<109>>, <<81>>, FALSE)
    /\ Len(emap) = 3 /\ emap[3] = PyObject(ExnType(<<109>>, <<81>>, FALSE))
    /\ outb = RpcException(<<51, 58, 109, 46, 81>>, <<120>>, Pack_q32(0),
                           S_comm_generic_py, 455, -1, S_serve_rpc)

\* the exception _serve_exception raised for the fields f
Reraised(f) ==
    DecodedException(KernelExceptionBodyIn(f.name, f.message, 7, f.function, <<16>>))

InInt32(value) == value.k \in {"int", "bool"}

\* value lies in [-2**63, 2**63-1]
InInt64(value) == value.k \in {"int", "bool", "bigint"}

\* C15: _send_rpc_value accepts an integer against the tag i exactly when
\* it lies in [-2**31, 2**31-1] and against the tag I exactly when it lies
\* in [-2**63, 2**63-1]; every other integer fails with the return-value
\* type error.
C15_IntegerDomain ==
    (pc = "sent" /\ args.op = "value" /\ IsInt(args.value)) =>
        /\ args.tags = <<TAG_i>> =>
               status = IF InInt32(args.value) THEN "ok" ELSE "RPCReturnValueError"
        /\ args.tags = <<TAG_I>> =>
               status = IF InInt64(args.value) THEN "ok" ELSE "RPCReturnValueError"

\* C16: _send_rpc_value with the tag O and an object the embedding map
\* holds writes the id of the object as a 4-byte big-endian integer.
C16_SendObject ==
    (/\ pc = "sent" /\ args.op = "value" /\ args.tags = <<TAG_O>>
     /\ args.value.k = "object"
     /\ \E id \in 1..Len(emap) : emap[id] = args.value) =>
        /\ status = "ok"
        /\ Flatten(write_buffer) = Pack_l(StoredId(emap, args.value))

(***************************************************************************)
(* SpecScan: the scan objects of artiq.language.scan and loops that        *)
(* iterate over one of them.  A number is a fraction <<n, d>> in lowest    *)
(* terms; an iterator is [i, done]: the values it has yielded so far and   *)
(* whether it has finished.                                                *)
(***************************************************************************)
MaxPoints == 3
MaxLoops == 2
MaxIters == 3

\* the number n / d
Rat(n, d) == Let(Gcd(Abs(n), Abs(d)) * (IF d < 0 THEN -1 ELSE 1),
                 LAMBDA g : <<n \div g, d \div g>>)

\* NoScan.__init__
NoScan(value) ==
    [ty |-> "NoScan", value |-> Rat(value, 1), start |-> 0, stop |-> 0, npoints |-> 1,
     sequence |-> <<>>]

\* LinearScan.__init__
LinearScan(start, stop, npoints) ==
    [ty |-> "LinearScan", value |-> Rat(0, 1), start |-> start, stop |-> stop,
     npoints |-> npoints, sequence |-> <<>>]

\* ExplicitScan.__init__
ExplicitScan(sequence) ==
    [ty |-> "ExplicitScan", value |-> Rat(0, 1), start |-> 0, stop |-> 0,
     npoints |-> 0, sequence |-> sequence]

\* a generator or a list iterator that has yielded nothing yet
NewIter == [i |-> 0, done |-> FALSE]

\* what next() gives: the iterator after it and the value yielded, or
\* StopIteration
Yield(it, value) == [it |-> [it EXCEPT !.i = @ + 1], stop |-> FALSE, value |-> value]
StopIteration(it) == [it |-> [it EXCEPT !.done = TRUE], stop |-> TRUE, value |-> Rat(0, 1)]

\* next() on the generator NoScan._gen
NoScanGen(self, it) ==
    IF it.done \/ it.i >= 1 THEN StopIteration(it) ELSE Yield(it, self.value)

\* next() on the generator LinearScan._gen
LinearScanGen(self, it) ==
    IF it.done \/ self.npoints = 0 THEN StopIteration(it)
    ELSE IF self.npoints = 1
         THEN IF it.i >= 1 THEN StopIteration(it) ELSE Yield(it, Rat(self.start, 1))
    ELSE IF it.i >= self.npoints THEN StopIteration(it)
    ELSE Yield(it, Rat(it.i * (self.stop - self.start) + self.start * (self.npoints - 1),
                       self.npoints - 1))

\* next() on iter(sequence)
ListIter(sequence, it) ==
    IF it.done \/ it.i >= Len(sequence) THEN StopIteration(it)
    ELSE Yield(it, sequence[it.i + 1])

\* next() on an iterator obtained from the scan object self
ScanNext(self, it) ==
    IF self.ty = "NoScan" THEN NoScanGen(self, it)
    ELSE IF self.ty = "LinearScan" THEN LinearScanGen(self, it)
    ELSE ListIter(self.sequence, it)

\* list(self): one iteration from a new iterator to its end
RECURSIVE Drain(_, _, _)
Drain(self, it, acc) ==
    Let(ScanNext(self, it), LAMBDA r :
        IF r.stop THEN acc ELSE Drain(self, r.it, Append(acc, r.value)))

ListOf(self) == Drain(self, NewIter, <<>>)

\* RandomScan.__init__: the values of the linear scan, shuffled by perm
RandomScan(start, stop, npoints, perm) ==
    [ty |-> "RandomScan", value |-> Rat(0, 1), start |-> start, stop |-> stop,
     npoints |-> npoints,
     sequence |-> [j \in 1..Len(perm) |->
                      ListOf(LinearScan(start, stop, npoints))[perm[j]]]]

\* __len__
ScanLen(self) ==
    IF self.ty = "NoScan" THEN 1
    ELSE IF self.ty = "ExplicitScan" THEN Len(self.sequence)
    ELSE self.npoints

\* an __iter__ that hands out the iterator made first
ScanIterShared(heap) ==
    IF heap = <<>> THEN [heap |-> <<NewIter>>, ref |-> 1] ELSE [heap |-> heap, ref |-> 1]

\* __iter__: a new generator or list iterator, and the reference to it
ScanIter(heap) == [heap |-> Append(heap, NewIter), ref |-> Len(heap) + 1]

\* the orders random.shuffle can leave n values in
Shuffles(n) == {q \in [1..n -> 1..n] : \A i, j \in 1..n : q[i] = q[j] => i = j}

Starts == {0, 1}
Stops == {1, 3}

ScanObjects ==
    {NoScan(v) : v \in Starts}
    \cup {LinearScan(a, b, n) : a \in Starts, b \in Stops, n \in 0..MaxPoints}
    \cup UNION {{RandomScan(a, b, n, q) : a \in Starts, b \in Stops, q \in Shuffles(n)} :
                   n \in 0..MaxPoints}
    \cup {ExplicitScan(q) : q \in SeqsUpTo({Rat(0, 1), Rat(1, 2)}, MaxPoints)}

ScanInit ==
    /\ read_type = NewComm.read_type
    /\ read_length = NewComm.read_length
    /\ write_type = NewComm.write_type
    /\ write_buffer = NewComm.write_buffer
    /\ inb = <<>>
    /\ outb = <<>>
    /\ status = "ok"
    /\ ret = PyNone
    /\ pc = "scanning"
    /\ args = <<>>
    /\ evlog = <<>>
    /\ inflight = 0
    /\ nops = 0
    /\ emap = <<>>
    /\ scan \in ScanObjects
    /\ iters = <<>>
    /\ loops = <<>>

ScanFrame ==
    UNCHANGED <<read_type, read_length, write_type, write_buffer, inb, outb, status,
                ret, pc, args, evlog, inflight, nops, emap, scan>>

\* a loop starts: iter(scan)
scan_iter ==
    /\ Len(loops) < MaxLoops
    /\ Len(iters) < MaxIters
    /\ iters' = ScanIter(iters).heap
    /\ loops' = Append(loops, [it |-> ScanIter(iters).ref, out |-> <<>>, done |-> FALSE])
    /\ ScanFrame

\* a loop takes its next value: next(it)
scan_next ==
    \E c \in 1..Len(loops) :
        /\ ~loops[c].done
        /\ Let(ScanNext(scan, iters[loops[c].it]), LAMBDA r :
               /\ iters' = [iters EXCEPT ![loops[c].it] = r.it]
               /\ loops' = [loops EXCEPT ![c] =
                               IF r.stop THEN [@ EXCEPT !.done = TRUE]
                               ELSE [@ EXCEPT !.out = Append(@, r.value)]])
        /\ ScanFrame

\* a loop that has finished iterates again: iter(scan)
scan_again ==
    \E c \in 1..Len(loops) :
        /\ loops[c].done
        /\ Len(iters) < MaxIters
        /\ iters' = ScanIter(iters).heap
        /\ loops' = [loops EXCEPT ![c] = [it |-> ScanIter(iters).ref, out |-> <<>>,
                                          done |-> FALSE]]
        /\ ScanFrame

ScanNextStep == scan_iter \/ scan_next \/ scan_again

SpecScan == ScanInit /\ [][ScanNextStep]_vars

\* C17: however the next() calls of the loops over one scan object
\* interleave, a loop has got a prefix of the values one uninterrupted
\* iteration gives, and when its iterator is exhausted it has got all of
\* them, len(scan) many; a loop that iterates again gets them again.
C17_IteratorsIndependent ==
    \A c \in 1..Len(loops) :
        /\ Len(loops[c].out) <= Len(ListOf(scan))
        /\ loops[c].out = SubSeq(ListOf(scan), 1, Len(loops[c].out))
        /\ loops[c].done =>
               /\ loops[c].out = ListOf(scan)
               /\ Len(loops[c].out) = ScanLen(scan)

\* two loops over a random scan of three points: one went through it twice,
\* the other is half way
C17_Witness ==
    /\ scan.ty = "RandomScan" /\ scan.npoints = 3
    /\ Len(loops) = 2 /\ Len(iters) = 3
    /\ loops[1].done /\ loops[1].it = 3 /\ Len(loops[1].out) = 3
    /\ ~loops[2].done /\ Len(loops[2].out) = 1

\* C18: when a write on the channel fails while the RPC_REPLY is flushed,
\* serve ends with that transport error and the driver calls write no more
\* for that request.
C18_TransportErrorSurfaced ==
    (args.rpc.served /\ args.rpc.caught = "transport") =>
        /\ pc = "raised"
        /\ status = "transport"
        /\ args.rpc.writes = args.rpc.tries

(***************************************************************************)
(* SpecParse: the reader interface over an inbound stream the device       *)
(* chose: synchronization sequences, length fields (negative, below 9, 9,  *)
(* 13) and type bytes in any order; the caller reads headers, chunks,      *)
(* integers and byte strings and resets the session, in any order.  args   *)
(* keeps what the reads of the current message did: body, the remaining    *)
(* count its header left (-1 when _read_header raised, so that no message  *)
(* is being read); used, the bytes the reads since then took from the      *)
(* channel; n, the length the last _read_chunk was called with.            *)
(***************************************************************************)
MaxPieces == 4
MaxReads == 4

Pieces == { <<90, 90, 90, 90>>, Pack_l(-1), Pack_l(0), Pack_l(5), Pack_l(9), Pack_l(13),
            <<KERNEL_FINISHED>>,
            <<90, 90, 90, 90>> \o Pack_l(13) \o <<KERNEL_FINISHED>> }

ParseInit ==
    /\ read_type = NewComm.read_type
    /\ read_length = NewComm.read_length
    /\ write_type = NewComm.write_type
    /\ write_buffer = NewComm.write_buffer
    /\ \E q \in SeqsUpTo(Pieces, MaxPieces) : inb = Flatten(q)
    /\ outb = <<>>
    /\ status = "ok"
    /\ ret = PyNone
    /\ pc = "opened"
    /\ args = [body |-> 0, used |-> 0, n |-> 0]
    /\ evlog = <<>>
    /\ inflight = 0
    /\ nops = 0
    /\ emap = <<>>
    /\ NoScanning

\* the state after a read that ends with the driver record d
ParseDone(name, n, d) ==
    /\ Commit(d)
    /\ pc' = name
    /\ nops' = nops + 1
    /\ args' = IF name = "read_header"
               THEN [body |-> IF d.err = NoErr THEN d.read_length ELSE -1,
                     used |-> 0, n |-> 0]
               ELSE [body |-> args.body,
                     used |-> args.used + (IF d.err = NoErr THEN Len(inb) - Len(d.inb)
                                           ELSE 0),
                     n |-> n]
    /\ UNCHANGED <<evlog, inflight>>

\* _read_header
read_header ==
    /\ nops < MaxReads
    /\ ParseDone("read_header", 0, Return(ReadHeader(Cur), PyNone))

\* _read_chunk(length), length the caller's
read_chunk ==
    \E length \in 1..2 :
        /\ nops < MaxReads
        /\ ParseDone("read_chunk", length,
                     Let(ReadChunk(Cur, length), LAMBDA c : Return(c, PyBytes(c.ret))))

\* _read_int32
read_int32 ==
    /\ nops < MaxReads
    /\ ParseDone("read_int32", 4, Let(ReadInt32(Cur), LAMBDA c : Return(c, PyInt(c.ret))))

\* _read_bytes
read_bytes ==
    /\ nops < MaxReads
    /\ ParseDone("read_bytes", 0,
                 Let(ReadBytes(Cur), LAMBDA c : Return(c, PyBytes(c.ret))))

reset_session ==
    /\ nops < MaxReads
    /\ ParseDone("reset_session", 0, Return(ResetSession(Cur), PyNone))

ParseNext == read_header \/ read_chunk \/ read_int32 \/ read_bytes \/ reset_session

SpecParse == ParseInit /\ [][ParseNext]_vars

\* C19: whatever headers, chunks and primitives have been read from
\* whatever inbound stream, _read_length is not negative.
C19_ParserStateInvariant == read_length >= 0

\* C20: a _read_header called while _read_length > 0 fails with the read
\* underrun error, reads no byte and leaves _read_type and _read_length as
\* they were; a call goes on to read a header only when _read_length is 0.
C20_ReadUnderrun ==
    [][ pc' = "read_header" =>
            /\ read_length > 0 =>
                   /\ status' = "Read underrun"
                   /\ inb' = inb
                   /\ read_type' = read_type
                   /\ read_length' = read_length
            /\ status' # "Read underrun" => read_length = 0 ]_vars

\* C21: a _read_chunk(n) with n <= _read_length takes n from _read_length
\* and reads n bytes from the channel; one with n > _read_length fails with
\* the read overrun error, reads no byte and leaves _read_length as it was;
\* so the reads of one message take at most length - 9 bytes from the
\* channel.
C21_ReadOverrun ==
    [][ /\ (pc' = "read_chunk" /\ args'.n <= read_length /\ args'.n <= Len(inb)) =>
               /\ status' = "ok"
               /\ read_length' = read_length - args'.n
               /\ inb' = SubSeq(inb, args'.n + 1, Len(inb))
        /\ (pc' = "read_chunk" /\ args'.n > read_length) =>
               /\ status' = "Read overrun"
               /\ inb' = inb
               /\ read_length' = read_length
        /\ args'.body >= 0 => args'.used <= args'.body ]_vars

\* C27: reset_session writes the 8 bytes 5A 5A 5A 5A 00 00 00 00 and no
\* type byte, and it resets the state of the inbound parser: after it
\* _read_length is 0 and the _read_header that follows does not fail with
\* read underrun, whatever was left to read before.
C27_SessionReset ==
    [][ /\ pc' = "reset_session" =>
               /\ status' = "ok"
               /\ outb' = outb \o <<90, 90, 90, 90, 0, 0, 0, 0>>
        /\ (pc = "reset_session" /\ pc' = "read_header") =>
               /\ read_length = 0
               /\ status' # "Read underrun" ]_vars

(***************************************************************************)
(* SpecTags: the tag stream of a caller of _send_rpc_value and of          *)
(* _skip_rpc_value.  The stream is a bytearray that starts with a grammar  *)
(* g, the tags of one value, and goes on with a suffix R; args.tags is     *)
(* what the caller's bytearray holds.                                      *)
(***************************************************************************)
MaxSuffix == 2

Grammars ==
    { <<TAG_n>>, <<TAG_i>>, <<TAG_s>>, <<TAG_t, 0>>, <<TAG_t, 2, TAG_i, TAG_n>>,
      <<TAG_l, TAG_i>>, <<TAG_l, TAG_l, TAG_i>>, <<TAG_l, TAG_t, 2, TAG_i, TAG_n>>,
      <<TAG_l, TAG_r, TAG_i>>, <<TAG_r, TAG_i>>, <<TAG_r, TAG_I>>,
      <<TAG_t, 2, TAG_r, TAG_i, TAG_n>>, <<TAG_t, 2, TAG_l, TAG_l, TAG_i, TAG_n>> }

Suffixes == SeqsUpTo({TAG_i, TAG_n}, MaxSuffix)

TagValues ==
    ReturnValues \cup
    { PyTuple(<<>>), PyTuple(<<Range12, PyNone>>),
      PyTuple(<<PyList(<<>>), PyNone>>),
      PyList(<<PyInt(1), PyInt(2)>>),
      PyList(<<PyList(<<PyInt(1)>>), PyList(<<>>)>>),
      PyList(<<PyTuple(<<PyInt(1), PyNone>>)>>),
      PyList(<<Range12>>) }

TagsInit ==
    /\ read_type = RPC_REQUEST
    /\ read_length = 0
    /\ write_type = RPC_REPLY
    /\ write_buffer = <<>>
    /\ inb = <<>>
    /\ outb = <<>>
    /\ status = "ok"
    /\ ret = PyNone
    /\ pc = "start"
    /\ \E g \in Grammars, R \in Suffixes, v \in TagValues :
           /\ WellFormedTags(g)
           /\ Match(g, v).ok
           /\ args = [g |-> g, R |-> R, value |-> v, tags |-> g \o R]
    /\ evlog = <<>>
    /\ inflight = 0
    /\ nops = 0
    /\ emap = <<>>
    /\ NoScanning

\* the state after an operation on the caller's bytearray that ends with the
\* driver record r.d and leaves r.tags in the bytearray
TagsDone(name, r) ==
    /\ Commit(r.d)
    /\ pc' = name
    /\ args' = [args EXCEPT !.tags = r.tags]
    /\ evlog' = r.d.evlog
    /\ UNCHANGED <<inflight, nops>>

\* tags = bytearray(g + R); self._send_rpc_value(tags, value, value, function)
send_rpc_value_tags ==
    /\ pc = "start"
    /\ TagsDone("sent", SendRpcValue(Cur, args.tags, args.value))

\* tags = bytearray(g + R); self._skip_rpc_value(tags)
skip_rpc_value ==
    /\ pc = "start"
    /\ TagsDone("skipped", SkipRpcValue(Cur, args.tags))

TagsNext == send_rpc_value_tags \/ skip_rpc_value

SpecTags == TagsInit /\ [][TagsNext]_vars

\* C24: for an element grammar G, scalar or nested, a suffix R and a list
\* of any number of elements that match G, _send_rpc_value on the stream
\* l.G.R leaves R in the caller's stream, and that is what one
\* _skip_rpc_value of l.G.R leaves.
C24_ListSkipEquivalence ==
    (pc = "sent" /\ args.g[1] = TAG_l) =>
        /\ status = "ok"
        /\ args.tags = args.R
        /\ SkipRpcValue(Cur, args.g \o args.R).tags = args.R

\* C25: for a sub-grammar G and a suffix R, _send_rpc_value of a range on
\* the stream r.G.R leaves R in the caller's stream, and in a tuple the
\* element behind a range is serialized against the tag behind G.
C25_RangeAdvancesParent ==
    /\ (pc = "sent" /\ args.g[1] = TAG_r) =>
           /\ status = "ok"
           /\ args.tags = args.R
    /\ (pc = "sent" /\ Len(args.g) > 3 /\ SubSeq(args.g, 1, 3) = <<TAG_t, 2, TAG_r>>) =>
           /\ status = "ok"
           /\ Flatten(write_buffer) = Match(args.g, args.value).out
           /\ args.tags = args.R

\* C26: for a well-formed grammar g and a suffix R, _skip_rpc_value on the
\* stream g.R emits no byte and leaves R: behind t it pops the arity and
\* skips that many grammars, behind l and r it skips one grammar, and of
\* any other tag it pops that tag alone.
C26_SkipTraversal ==
    pc = "skipped" =>
        /\ status = "ok"
        /\ write_buffer = <<>>
        /\ outb = <<>>
        /\ args.tags = args.R

(***************************************************************************)
(* SpecServeLive: serve over an inbound stream of finitely many RPC        *)
(* requests and one last message that ends the kernel.  The requests are   *)
(* well formed, every service returns or raises, and the reads and writes  *)
(* of the channel complete, so that the loop of serve goes on with its     *)
(* next pass whenever it has not returned or raised (weak fairness of the  *)
(* pass).  args.replies is what each pass wrote, nops the passes made.     *)
(***************************************************************************)
MaxRequests == 2

\* the requests of the stream and what their services do
LiveCalls ==
    { [service_id |-> 1, arg_stream |-> <<0>>, return_tags |-> <<TAG_n>>,
       outcome |-> Returns(PyNone)],
      [service_id |-> 1, arg_stream |-> <<TAG_i>> \o Pack_l(7) \o <<0>>,
       return_tags |-> <<TAG_i>>, outcome |-> Returns(PyInt(5))],
      [service_id |-> 1, arg_stream |-> <<0>>, return_tags |-> <<TAG_l, TAG_i>>,
       outcome |-> Returns(PyList(<<PyInt(1)>>))],
      [service_id |-> 1, arg_stream |-> <<0>>, return_tags |-> <<TAG_i>>,
       outcome |-> Returns(PyNone)],
      [service_id |-> 1, arg_stream |-> <<0>>, return_tags |-> <<TAG_n>>,
       outcome |-> Raises(Exn(ExnType(S_builtins, S_ValueError, FALSE),
                              <<98, 97, 100>>, ServiceFrames))],
      [service_id |-> 0,
       arg_stream |-> <<TAG_O>> \o Pack_l(1) \o <<TAG_s>> \o DevString(<<120>>)
                      \o <<TAG_i>> \o Pack_l(7) \o <<0>>,
       return_tags |-> <<TAG_n>>, outcome |-> Returns(PyNone)] }

\* the messages that end the kernel
LiveFinals ==
    { Envelope(KERNEL_FINISHED, <<>>), Envelope(WATCHDOG_EXPIRED, <<>>),
      Envelope(CLOCK_FAILURE, <<>>),
      Envelope(KERNEL_EXCEPTION,
               KernelExceptionBody(<<48, 58>> \o S_ValueError, <<98, 97, 100>>, 7, <<16>>)) }

\* the bytes of the stream: the requests in order, then the last message
LiveStream(calls, final) ==
    Flatten([j \in 1..Len(calls) |->
                RpcRequest(calls[j].service_id, calls[j].arg_stream,
                           calls[j].return_tags)]) \o final

LiveInit ==
    /\ read_type = NewComm.read_type
    /\ read_length = NewComm.read_length
    /\ write_type = NewComm.write_type
    /\ write_buffer = NewComm.write_buffer
    /\ \E calls \in SeqsUpTo(LiveCalls, MaxRequests), final \in LiveFinals :
           /\ inb = LiveStream(calls, final)
           /\ args = [calls |-> calls, final |-> final, replies |-> <<>>]
    /\ outb = <<>>
    /\ status = "ok"
    /\ ret = PyNone
    /\ pc = "serving"
    /\ evlog = <<>>
    /\ inflight = 0
    /\ nops = 0
    /\ emap = <<ServiceObject, ExceptionClass>>
    /\ NoScanning

\* the state after a pass of the loop of serve that ends with the driver
\* record d: serve has raised, or it goes on with its loop, or it has
\* returned
LiveDone(d) ==
    /\ Commit(d)
    /\ pc' = IF d.err # NoErr THEN "raised"
             ELSE IF d.read_type = RPC_REQUEST THEN "serving" ELSE "returned"
    /\ args' = [args EXCEPT !.replies = Append(@, d.outb)]
    /\ evlog' = d.evlog
    /\ nops' = nops + 1
    /\ UNCHANGED inflight

\* one pass of the loop of serve over what the channel holds; the service
\* invoked in pass k does what the k-th request says
serve_loop ==
    /\ pc = "serving"
    /\ LiveDone(Return(Serve(Begin, IF nops < Len(args.calls)
                                    THEN args.calls[nops + 1].outcome
                                    ELSE Returns(PyNone)),
                       PyNone))

LiveNext == serve_loop

\* while True: serve is in its loop and makes one more pass.  Every step
\* of serve_loop is such a step and it is possible exactly while serve has
\* neither returned nor raised.
WhileTrue == pc = "serving" /\ nops' = nops + 1

SpecServeLive == LiveInit /\ [][LiveNext]_vars /\ WF_nops(WhileTrue)

\* bytes is the answer to call: nothing when the service of id 0 returns,
\* one RPC_REPLY envelope with the return tags and the bytes of the value
\* when the service returns a value that matches them, one RPC_EXCEPTION
\* envelope otherwise
RpcReplyFor(call, bytes) ==
    IF call.outcome.o = "raises" THEN OneEnvelope(bytes, RPC_EXCEPTION)
    ELSE IF call.service_id = 0 THEN bytes = <<>>
    ELSE IF Match(call.return_tags, call.outcome.x).ok
    THEN bytes = Envelope(RPC_REPLY, Pack_l(Len(call.return_tags)) \o call.return_tags
                                     \o Match(call.return_tags, call.outcome.x).out)
    ELSE OneEnvelope(bytes, RPC_EXCEPTION)

\* the passes made so far handled the messages of the stream in their order,
\* one pass for each message, and serve ends on the last message only
LiveInOrder ==
    /\ Len(args.replies) = nops
    /\ nops <= Len(args.calls) + 1
    /\ \A k \in 1..nops :
           IF k <= Len(args.calls) THEN RpcReplyFor(args.calls[k], args.replies[k])
           ELSE args.replies[k] = <<>>
    /\ inb = IF nops > Len(args.calls) THEN <<>>
             ELSE LiveStream(SubSeq(args.calls, nops + 1, Len(args.calls)), args.final)
    /\ pc = "serving" <=> nops <= Len(args.calls)
    /\ pc # "serving" =>
           /\ read_type = args.final[9]
           /\ pc = "returned" <=> read_type = KERNEL_FINISHED
           /\ read_type = WATCHDOG_EXPIRED => status = "WatchdogExpired"
           /\ read_type = CLOCK_FAILURE => status = "ClockFailure"
           /\ read_type = KERNEL_EXCEPTION => status = "KernelException"

\* C28: over a stream of finitely many well-formed RPC_REQUEST messages and
\* then one KERNEL_FINISHED, KERNEL_EXCEPTION, WATCHDOG_EXPIRED or
\* CLOCK_FAILURE message, with services that return or raise and channel
\* reads and writes that complete, serve eventually returns or raises, and
\* it handles the messages in the order of their arrival, one RPC at a time.
C28_ServeTerminates ==
    /\ <>(pc \in {"returned", "raised"})
    /\ []LiveInOrder

C28_Witness ==
    /\ pc = "returned" /\ nops = 3
    /\ args.calls[1].outcome.o = "raises" /\ args.calls[2].return_tags = <<TAG_l, TAG_i>>
    /\ args.replies[2] # <<>>

====
